---- MODULE Spec2Model ----
(***************************************************************************)
(* Model of the beanrust ledger parser: the statement segmenter, the entry *)
(* dispatcher, the transaction assembler, the parse result aggregator and  *)
(* the balance validator.                                                  *)
(*                                                                         *)
(* Text is a sequence of one-character strings; an offset is a 0-based     *)
(* position as in the Rust source, and a slice is a pair of offsets        *)
(* (start inclusive, end exclusive) into the input buffer.                 *)
(***************************************************************************)
EXTENDS Integers, Sequences, FiniteSets, TLC

\* ------------------------------------------------------------------ bounds

\* Largest number of lines of an input assembled from LineCatalog.
MaxLines == 3

\* ------------------------------------------------------- character classes

WhitespaceChars == {" ", "\n", "\t"}

DigitChars == {"0", "1", "2", "3", "4", "5", "6", "7", "8", "9"}

AlphabeticChars ==
    {"a", "b", "c", "d", "e", "f", "g", "h", "i", "j", "k", "l", "m",
     "n", "o", "p", "q", "r", "s", "t", "u", "v", "w", "x", "y", "z",
     "A", "B", "C", "D", "E", "F", "G", "H", "I", "J", "K", "L", "M",
     "N", "O", "P", "Q", "R", "S", "T", "U", "V", "W", "X", "Y", "Z"}

\* regex \w
WordChars == AlphabeticChars \cup DigitChars \cup {"_"}

CommentChars == {";", "#"}

\* is_comment_char
is_comment_char(c) == c \in CommentChars

\* ----------------------------------------------------------- str helpers

\* &data[start..end] with 0-based offsets
Sub(data, start, end) == SubSeq(data, start + 1, end)

RECURSIVE FindIn(_, _, _, _)
\* str::find(pred) restricted to s[from..]: least 1-based index i >= from with
\* (s[i] \in cls) = want, 0 when there is none
FindIn(s, from, cls, want) ==
    IF from > Len(s) THEN 0
    ELSE IF (s[from] \in cls) = want THEN from
    ELSE FindIn(s, from + 1, cls, want)

RECURSIVE RFindIn(_, _, _, _)
\* greatest 1-based index i <= from with (s[i] \in cls) = want, 0 when none
RFindIn(s, from, cls, want) ==
    IF from < 1 THEN 0
    ELSE IF (s[from] \in cls) = want THEN from
    ELSE RFindIn(s, from - 1, cls, want)

\* str::trim_start
TrimStart(s) ==
    LET a == FindIn(s, 1, WhitespaceChars, FALSE)
    IN  IF a = 0 THEN <<>> ELSE SubSeq(s, a, Len(s))

\* str::trim_end
TrimEnd(s) == SubSeq(s, 1, RFindIn(s, Len(s), WhitespaceChars, FALSE))

\* str::trim
Trim(s) == TrimEnd(TrimStart(s))

\* the offsets of data[start..end].trim() inside data
TrimRange(data, start, end) ==
    LET line == Sub(data, start, end)
        a == FindIn(line, 1, WhitespaceChars, FALSE)
        b == RFindIn(line, Len(line), WhitespaceChars, FALSE)
    IN  IF a = 0 THEN [s |-> end, e |-> end]
        ELSE [s |-> start + a - 1, e |-> start + b]

\* str::split_once(c): <<found, before, after>>
SplitOnce(s, c) ==
    LET i == FindIn(s, 1, {c}, TRUE)
    IN  IF i = 0 THEN [found |-> FALSE, before |-> s, after |-> <<>>]
        ELSE [found |-> TRUE, before |-> SubSeq(s, 1, i - 1),
              after |-> SubSeq(s, i + 1, Len(s))]

RECURSIVE Lines(_)
\* str::lines: split at '\n', no empty last line after a final newline
Lines(s) ==
    IF s = <<>> THEN <<>>
    ELSE LET i == FindIn(s, 1, {"\n"}, TRUE)
         IN  IF i = 0 THEN <<s>>
             ELSE <<SubSeq(s, 1, i - 1)>> \o Lines(SubSeq(s, i + 1, Len(s)))

\* ------------------------------------------------------------ LineIterator

\* LineIterator::next: the (start, end) offsets of the next line and the
\* iterator's new position
LineIterator_next(data, position) ==
    LET size == Len(data)
        nl == FindIn(data, position + 1, {"\n"}, TRUE)
    IN  IF position >= size
        THEN [tag |-> "None", start |-> 0, end |-> 0, position |-> position]
        ELSE IF nl # 0
        THEN [tag |-> "Some", start |-> position, end |-> nl - 1, position |-> nl]
        ELSE [tag |-> "Some", start |-> position, end |-> size, position |-> size]

\* ------------------------------------------------------- StatementIterator

\* regex ^\d{4}-\d{2}-\d{2}
DatePrefix(line) ==
    /\ Len(line) >= 10
    /\ \A i \in {1, 2, 3, 4, 6, 7, 9, 10} : line[i] \in DigitChars
    /\ line[5] = "-"
    /\ line[8] = "-"

\* regex ^\d{4}-\d{2}-\d{2}.*
new_statement_matcher(line) == DatePrefix(line)

\* a block matcher that takes every date-led line for the start of a block
new_multiline_statement_matcher_any(line) == DatePrefix(line)

\* regex ^\d{4}-\d{2}-\d{2} +\*.*
new_multiline_statement_matcher(line) ==
    /\ DatePrefix(line)
    /\ Len(line) >= 12
    /\ line[11] = " "
    /\ LET k == FindIn(line, 11, {" "}, FALSE)
       IN  k # 0 /\ line[k] = "*"

\* skip_line
skip_line(line) ==
    \/ line = <<>>
    \/ is_comment_char(line[1])
    \/ line[1] = "*"

\* IteratorState
SearchingNextStart == [tag |-> "SearchingNextStart", start |-> 0, end |-> 0]

ReadingMultiline(start) == [tag |-> "ReadingMultiline", start |-> start, end |-> 0]

FinishedMultilineFoundSingle(start, end) ==
    [tag |-> "FinishedMultilineFoundSingle", start |-> start, end |-> end]

\* a Some whose slice runs to the line iterator's position
YieldSome_to_position(s, e, position, st, arm) ==
    [tag |-> "Some", s |-> s, e |-> position, position |-> position,
     state |-> st, arm |-> arm]

\* results of StatementIterator::next: the slice data[s..e], the line
\* iterator's position and the iterator's state after the call; arm names the
\* return statement that produced the slice
YieldSome(s, e, position, st, arm) ==
    [tag |-> "Some", s |-> s, e |-> e, position |-> position, state |-> st,
     arm |-> arm]

\* a None that rewinds the line iterator to the start of the input
YieldNone_rewinding(position, st) ==
    [tag |-> "None", s |-> 0, e |-> 0, position |-> 0, state |-> st,
     arm |-> "none"]

YieldNone(position, st) ==
    [tag |-> "None", s |-> 0, e |-> 0, position |-> position, state |-> st,
     arm |-> "none"]

YieldPanic(position, st) ==
    [tag |-> "Panic", s |-> 0, e |-> 0, position |-> position, state |-> st,
     arm |-> "panic"]

RECURSIVE ReadingLoop(_, _, _, _)
\* a ReadingMultiline loop that never advances end_pos (line 105 left out)
ReadingLoop_fixed_end(data, position, start_pos, end_pos) ==
    LET l == LineIterator_next(data, position)
        tr == TrimRange(data, l.start, l.end)
        line == Sub(data, tr.s, tr.e)
    IN  IF l.tag = "None"
        THEN YieldSome(start_pos, Len(data), l.position, SearchingNextStart,
                       "multiline_eof")
        ELSE IF skip_line(line)
        THEN ReadingLoop(data, l.position, start_pos, end_pos)
        ELSE IF new_multiline_statement_matcher(line)
        THEN YieldSome(start_pos, end_pos, l.position, ReadingMultiline(l.start),
                       "multiline")
        ELSE IF new_statement_matcher(line)
        THEN YieldSome(start_pos, end_pos, l.position,
                       FinishedMultilineFoundSingle(l.start, l.end), "multiline")
        ELSE ReadingLoop(data, l.position, start_pos, end_pos)

\* StatementIterator::next, the loop of the ReadingMultiline(start_pos) arm
ReadingLoop(data, position, start_pos, end_pos) ==
    LET l == LineIterator_next(data, position)
        tr == TrimRange(data, l.start, l.end)
        line == Sub(data, tr.s, tr.e)
    IN  IF l.tag = "None"
        THEN YieldSome(start_pos, Len(data), l.position, SearchingNextStart,
                       "multiline_eof")
        ELSE IF skip_line(line)
        THEN ReadingLoop(data, l.position, start_pos, end_pos)
        ELSE IF new_multiline_statement_matcher(line)
        THEN YieldSome(start_pos, end_pos, l.position, ReadingMultiline(l.start),
                       "multiline")
        ELSE IF new_statement_matcher(line)
        THEN YieldSome(start_pos, end_pos, l.position,
                       FinishedMultilineFoundSingle(l.start, l.end), "multiline")
        ELSE ReadingLoop(data, l.position, start_pos, l.end)

RECURSIVE SearchLoop(_, _)
\* a SearchingNextStart loop that returns the untrimmed line data[start..end]
SearchLoop_untrimmed(data, position) ==
    LET l == LineIterator_next(data, position)
        tr == TrimRange(data, l.start, l.end)
        line == Sub(data, tr.s, tr.e)
    IN  IF l.tag = "None"
        THEN YieldNone(l.position, SearchingNextStart)
        ELSE IF skip_line(line)
        THEN SearchLoop(data, l.position)
        ELSE IF new_multiline_statement_matcher(line)
        THEN ReadingLoop(data, l.position, l.start, l.start)
        ELSE IF new_statement_matcher(line)
        THEN YieldSome(l.start, l.end, l.position, SearchingNextStart, "single")
        ELSE YieldPanic(l.position, SearchingNextStart)

\* StatementIterator::next, the loop of the SearchingNextStart arm
SearchLoop(data, position) ==
    LET l == LineIterator_next(data, position)
        tr == TrimRange(data, l.start, l.end)
        line == Sub(data, tr.s, tr.e)
    IN  IF l.tag = "None"
        THEN YieldNone(l.position, SearchingNextStart)
        ELSE IF skip_line(line)
        THEN SearchLoop(data, l.position)
        ELSE IF new_multiline_statement_matcher(line)
        THEN ReadingLoop(data, l.position, l.start, l.start)
        ELSE IF new_statement_matcher(line)
        THEN YieldSome(tr.s, tr.e, l.position, SearchingNextStart, "single")
        ELSE YieldPanic(l.position, SearchingNextStart)

\* a next that forgets the statement held in FinishedMultilineFoundSingle
StatementIterator_next_forgetting(data, position, st) ==
    CASE st.tag = "SearchingNextStart" -> SearchLoop(data, position)
      [] st.tag = "ReadingMultiline" ->
            ReadingLoop(data, position, st.start, st.start)
      [] st.tag = "FinishedMultilineFoundSingle" -> SearchLoop(data, position)

\* StatementIterator::next
StatementIterator_next(data, position, st) ==
    CASE st.tag = "SearchingNextStart" -> SearchLoop(data, position)
      [] st.tag = "ReadingMultiline" ->
            ReadingLoop(data, position, st.start, st.start)
      [] st.tag = "FinishedMultilineFoundSingle" ->
            YieldSome(st.start, st.end, position, SearchingNextStart,
                      "found_single")

\* ------------------------------------------------------- Option and Result

None == <<>>

Some(x) == <<x>>

\* Result: Ok(val), Err(err), or a panic unwinding through the caller
R_Ok(v) == [tag |-> "Ok", val |-> v, err |-> <<>>]

R_Err(e) == [tag |-> "Err", val |-> <<>>, err |-> e]

R_Panic(msg) == [tag |-> "Panic", val |-> <<>>, err |-> msg]

\* an error String of the parser: the message's fixed text and the text
\* formatted into it
ErrMsg(msg, arg) == [msg |-> msg, arg |-> arg]

\* ----------------------------------------------------------------- Decimal

DigitSeq == <<"0", "1", "2", "3", "4", "5", "6", "7", "8", "9">>

DigitValue(c) == (CHOOSE i \in 1..10 : DigitSeq[i] = c) - 1

RECURSIVE Pow10(_)
Pow10(k) == IF k = 0 THEN 1 ELSE 10 * Pow10(k - 1)

\* Decimal: mantissa m and scale, the number m * 10^(-scale)
Decimal_new(m, scale) == [m |-> m, scale |-> scale]

\* Decimal's PartialEq: numeric, whatever the scales
DecEq(a, b) == a.m * Pow10(b.scale) = b.m * Pow10(a.scale)

\* Decimal's Add: the larger scale is kept
DecAdd(a, b) ==
    LET sc == IF a.scale >= b.scale THEN a.scale ELSE b.scale
    IN  Decimal_new(a.m * Pow10(sc - a.scale) + b.m * Pow10(sc - b.scale), sc)

\* Decimal::abs
DecAbs(a) == Decimal_new(IF a.m < 0 THEN -a.m ELSE a.m, a.scale)

RECURSIVE DigitsValue(_)
DigitsValue(ds) ==
    IF ds = <<>> THEN 0
    ELSE 10 * DigitsValue(SubSeq(ds, 1, Len(ds) - 1)) + DigitValue(ds[Len(ds)])

\* Decimal::from_str_exact: an optional sign, digits with at most one
\* decimal point, at least one digit
Decimal_from_str_exact(text) ==
    LET signed == text # <<>> /\ text[1] \in {"-", "+"}
        body == IF signed THEN SubSeq(text, 2, Len(text)) ELSE text
        dot == FindIn(body, 1, {"."}, TRUE)
        int == IF dot = 0 THEN body ELSE SubSeq(body, 1, dot - 1)
        frac == IF dot = 0 THEN <<>> ELSE SubSeq(body, dot + 1, Len(body))
        digits == int \o frac
        v == DigitsValue(digits)
    IN  IF /\ digits # <<>>
           /\ \A i \in 1..Len(digits) : digits[i] \in DigitChars
        THEN R_Ok(Decimal_new(IF signed /\ text[1] = "-" THEN -v ELSE v, Len(frac)))
        ELSE R_Err(ErrMsg("Invalid decimal", text))


\* ------------------------------------------------------------------ Amount

\* Amount::new
Amount_new(number, currency) == [number |-> number, currency |-> currency]

\* Amount's PartialEq
AmountEq(a, b) == DecEq(a.number, b.number) /\ a.currency = b.currency

\* the Amount Grammar, last step: the number text parsed, the Amount built
Amount_from_number(input, num, currency) ==
    IF num.tag # "Ok" THEN R_Err(ErrMsg("Invalid number in amount", input))
    ELSE R_Ok(Amount_new(num.val, currency))

\* the Amount Grammar on the trimmed text t whose first alphabetic character
\* is at the 1-based index cs (0: none): the currency is the maximal
\* alphabetic run from cs, nothing may follow it, the number is what
\* precedes it
Amount_from_currency_start(input, t, cs) ==
    LET ce == FindIn(t, cs, AlphabeticChars, FALSE)
        cend == IF ce = 0 THEN Len(t) ELSE ce - 1
    IN  IF cs = 0 THEN R_Err(ErrMsg("No currency found", input))
        ELSE IF Trim(SubSeq(t, cend + 1, Len(t))) # <<>>
        THEN R_Err(ErrMsg("Unexpected remaining input in amount", input))
        ELSE Amount_from_number(input,
                 Decimal_from_str_exact(Trim(SubSeq(t, 1, cs - 1))),
                 SubSeq(t, cs, cend))

\* the Amount Grammar on the trimmed text
Amount_from_trimmed(input, t) ==
    Amount_from_currency_start(input, t, FindIn(t, 1, AlphabeticChars, TRUE))

\* impl TryFrom<&str> for Amount (the Amount Grammar): <number>, optional
\* space, <currency>
Amount_try_from(input) == Amount_from_trimmed(input, Trim(input))

\* ----------------------------------------------------------- TokenIterator

\* trim_comment_at_end: scanning backwards over the last line, cut at the
\* first comment character met
trim_comment_at_end(data) ==
    LET i == RFindIn(data, Len(data), CommentChars \cup {"\n"}, TRUE)
    IN  IF i = 0 \/ data[i] = "\n" THEN data ELSE SubSeq(data, 1, i - 1)

\* TokenIterator::new panics on text holding a newline
TokenIterator_panics(data) == FindIn(data, 1, {"\n"}, TRUE) # 0

\* TokenIterator::new: the text the tokens are cut from
TokenIterator_new(data) == trim_comment_at_end(Trim(data))

RECURSIVE TokenLoop(_, _)
\* TokenIterator::next called until None, from the 0-based position
TokenLoop(data, position) ==
    LET start == FindIn(data, position + 1, WhitespaceChars, FALSE)
        end == FindIn(data, start, WhitespaceChars, TRUE)
    IN  IF position >= Len(data) \/ start = 0 THEN <<>>
        ELSE IF end = 0 THEN <<SubSeq(data, start, Len(data))>>
        ELSE <<SubSeq(data, start, end - 1)>> \o TokenLoop(data, end - 1)

\* every token of TokenIterator::new(data)
Tokens(data) == TokenLoop(TokenIterator_new(data), 0)

\* -------------------------------------------------------- consume_amount

\* consume_amount, the return: amount_str.try_into()? and the rest
consume_amount_split(amount, remain) ==
    IF amount.tag # "Ok" THEN amount
    ELSE R_Ok([amount |-> amount.val, remain |-> remain])

\* a consume_amount whose currency is the single first alphabetic character
consume_amount_one_letter(input, currency_start) ==
    IF currency_start = 0 THEN R_Err(ErrMsg("No currency found", input))
    ELSE consume_amount_split(
             Amount_try_from(SubSeq(input, 1, currency_start)),
             SubSeq(input, currency_start + 1, Len(input)))

\* consume_amount from the 1-based index of the first alphabetic character
\* (0: none)
consume_amount_at(input, currency_start) ==
    LET ce == FindIn(input, currency_start, AlphabeticChars, FALSE)
        currency_end == IF ce = 0 THEN Len(input) ELSE ce - 1
    IN  IF currency_start = 0 THEN R_Err(ErrMsg("No currency found", input))
        ELSE consume_amount_split(
                 Amount_try_from(SubSeq(input, 1, currency_end)),
                 SubSeq(input, currency_end + 1, Len(input)))

\* consume_amount: the amount at the head of input and the untouched rest
consume_amount(input) ==
    consume_amount_at(input, FindIn(input, 1, AlphabeticChars, TRUE))

\* ------------------------------------------------------ Price/Cost grammar

\* fractional digits kept by Decimal's Div when the quotient is not exact
DivScale == 4

RECURSIVE ExactScale(_, _, _)
\* the least k <= DivScale with n * 10^k a multiple of d, DivScale if none
ExactScale(n, d, k) ==
    IF k >= DivScale \/ (n * Pow10(k)) % d = 0 THEN k ELSE ExactScale(n, d, k + 1)

\* the quotient n / d at scale k, rounded half up
DecQuotient(neg, n, d, k) ==
    Decimal_new((IF neg THEN -1 ELSE 1) * ((2 * n * Pow10(k) + d) \div (2 * d)), k)

\* Decimal's Div on a non-zero divisor: the quotient is exact when it has at
\* most DivScale fractional digits and rounded to DivScale otherwise
DecDiv(a, b) ==
    LET n == (IF a.m < 0 THEN -a.m ELSE a.m) * Pow10(b.scale)
        d == (IF b.m < 0 THEN -b.m ELSE b.m) * Pow10(a.scale)
    IN  DecQuotient((a.m < 0) # (b.m < 0), n, d, ExactScale(n, d, 0))

\* impl Div<Decimal> for Amount: the number divided, the currency kept
Amount_div(a, d) == Amount_new(DecDiv(a.number, d), a.currency)

\* Price and Cost
Price(amount) == [amount |-> amount]

Cost(amount) == [amount |-> amount]

\* CostType
Known(c) == <<"Known", c>>

Automatic == <<"Automatic">>

\* Parsed<T>
Parsed(data, per_unit) == [data |-> data, per_unit |-> per_unit]

\* regex " *" at the head of s, removed
StripSpaces(s) ==
    LET a == FindIn(s, 1, {" "}, FALSE)
    IN  IF a = 0 THEN <<>> ELSE SubSeq(s, a, Len(s))

\* regex (\d+.*\w+) matching the whole of t
amnt_regex(t) ==
    /\ Len(t) >= 2
    /\ t[1] \in DigitChars
    /\ t[Len(t)] \in WordChars
    /\ FindIn(t, 1, {"\n"}, TRUE) = 0

\* the cost group's alternatives on rest, unit and tot being the texts
\* between the braces after " *"
CostAlternatives(rest, n, unit, tot) ==
    IF n >= 2 /\ rest[1] = "{" /\ rest[n] = "}" /\ amnt_regex(unit)
    THEN [m |-> "unitcost", text |-> unit]
    ELSE IF /\ n >= 4
            /\ SubSeq(rest, 1, 2) = <<"{", "{">>
            /\ SubSeq(rest, n - 1, n) = <<"}", "}">>
            /\ amnt_regex(SubSeq(tot, 1, RFindIn(tot, Len(tot), {" "}, FALSE)))
    THEN [m |-> "totcost", text |-> tot]
    ELSE [m |-> "fail", text |-> <<>>]

\* the regex's cost group and the end anchor on the text after the price:
\* ((\{ *(?P<unitcost>A)\})|(\{\{ *(?P<totcost>A *)\}\}))?$
CostClause(rest) ==
    IF rest = <<>> THEN [m |-> "none", text |-> <<>>]
    ELSE CostAlternatives(rest, Len(rest),
             StripSpaces(SubSeq(rest, 2, Len(rest) - 1)),
             StripSpaces(SubSeq(rest, 3, Len(rest) - 2)))

RECURSIVE PriceEnd(_, _)
\* the greedy end of the price group's amount: the greatest e <= from such
\* that b[1..e] matches (\d+.*\w+) and the rest matches the cost group and $
PriceEnd(b, from) ==
    IF from < 2 THEN 0
    ELSE IF /\ amnt_regex(SubSeq(b, 1, from))
            /\ CostClause(StripSpaces(SubSeq(b, from + 1, Len(b)))).m # "fail"
    THEN from
    ELSE PriceEnd(b, from - 1)

\* the regex's captures
Captures(matched, pm, ptext, c) ==
    [matched |-> matched, pm |-> pm, ptext |-> ptext, cm |-> c.m,
     ctext |-> c.text]

\* the captures when the price group ends at e (0: no match)
PriceCapturesAt(pm, b, e) ==
    IF e = 0 THEN Captures(FALSE, "none", <<>>, [m |-> "none", text |-> <<>>])
    ELSE Captures(TRUE, pm, SubSeq(b, 1, e),
                  CostClause(StripSpaces(SubSeq(b, e + 1, Len(b)))))

\* the captures of an input that begins with the price group, b being the
\* text after "@ *" or "@@ *"
PriceCaptures(pm, b) == PriceCapturesAt(pm, b, PriceEnd(b, Len(b)))

\* the captures of an input without a price group
CostOnlyCaptures(only) == Captures(only.m # "fail", "none", <<>>, only)

\* the captures of the whole regex on the trimmed, non-empty input
PriceCostCaptures(t) ==
    LET tot == Len(t) >= 2 /\ t[2] = "@"
    IN  IF t[1] = "@"
        THEN PriceCaptures(IF tot THEN "totpr" ELSE "unitpr",
                           StripSpaces(SubSeq(t, IF tot THEN 3 ELSE 2, Len(t))))
        ELSE CostOnlyCaptures(CostClause(t))

\* a loop body that drops a captured text whose try_into() fails
parse_captured_amounts_partial(cap, pa, ca) ==
    R_Ok([price |-> IF cap.pm = "none" \/ pa.tag # "Ok" THEN None
                    ELSE Some(Parsed(Price(pa.val), cap.pm = "unitpr")),
          cost |-> IF cap.cm = "none" \/ ca.tag # "Ok" THEN None
                   ELSE Some(Parsed(Known(Cost(ca.val)), cap.cm = "unitcost"))])

\* parse_price_and_cost, the loop body over the captures: pa and ca are the
\* captured texts' try_into() results
parse_captured_amounts(cap, pa, ca) ==
    IF cap.pm # "none" /\ pa.tag # "Ok" THEN pa
    ELSE IF cap.cm # "none" /\ ca.tag # "Ok" THEN ca
    ELSE R_Ok([price |-> IF cap.pm = "none" THEN None
                         ELSE Some(Parsed(Price(pa.val), cap.pm = "unitpr")),
               cost |-> IF cap.cm = "none" THEN None
                        ELSE Some(Parsed(Known(Cost(ca.val)),
                                         cap.cm = "unitcost"))])

\* parse_price_and_cost on the regex's captures
parse_captures(input, cap) ==
    IF ~cap.matched THEN R_Err(ErrMsg("unable to parse", input))
    ELSE parse_captured_amounts(cap, Amount_try_from(cap.ptext),
                                Amount_try_from(cap.ctext))

\* parse_price_and_cost on the trimmed input
parse_price_and_cost_trimmed(input) ==
    IF input = <<>> THEN R_Ok([price |-> None, cost |-> None])
    ELSE parse_captures(input, PriceCostCaptures(input))

\* parse_price_and_cost
parse_price_and_cost(input) == parse_price_and_cost_trimmed(Trim(input))

\* ----------------------------------------------------------------- Posting

Posting(account, amount, price, cost) ==
    [account |-> account, amount |-> amount, price |-> price, cost |-> cost]

\* a price.map that divides a total price by the signed amount
map_price_signed(p, amount) ==
    IF p = None THEN None
    ELSE IF p[1].per_unit THEN Some(p[1].data)
    ELSE Some(Price(Amount_div(p[1].data.amount, amount.number)))

\* Posting::try_from, price.map: a total price is divided by the amount
map_price(p, amount) ==
    IF p = None THEN None
    ELSE IF p[1].per_unit THEN Some(p[1].data)
    ELSE Some(Price(Amount_div(p[1].data.amount, DecAbs(amount.number))))

\* Posting::try_from, cost.map: a total cost is divided by the amount
map_cost(c, amount) ==
    IF c = None THEN None
    ELSE IF c[1].per_unit THEN Some(c[1].data)
    ELSE Some(Known(Cost(Amount_div(c[1].data[2].amount,
                                    DecAbs(amount.number)))))

\* Posting::try_from once price and cost are parsed; dividing by a zero
\* amount panics
Posting_from_price_and_cost(account, amount, p, c) ==
    IF /\ amount.number.m = 0
       /\ \/ p # None /\ ~p[1].per_unit
          \/ c # None /\ ~c[1].per_unit
    THEN R_Panic("Division by zero")
    ELSE R_Ok(Posting(account, amount, map_price(p, amount),
                      map_cost(c, amount)))

\* Posting::try_from after parse_price_and_cost(remain)?
Posting_from_amount(account, amount, pc) ==
    IF pc.tag # "Ok" THEN pc
    ELSE Posting_from_price_and_cost(account, amount, pc.val.price, pc.val.cost)

\* Posting::try_from after consume_amount(remain)?
Posting_from_account(account, am) ==
    IF am.tag # "Ok" THEN am
    ELSE Posting_from_amount(account, am.val.amount,
                             parse_price_and_cost(am.val.remain))

\* Posting::try_from after input.split_once(' ')
Posting_from_split(input, sp) ==
    IF ~sp.found THEN R_Err(ErrMsg("No account in posting", input))
    ELSE Posting_from_account(sp.before, consume_amount(sp.after))

\* impl TryFrom<&str> for Posting
Posting_try_from(input) == Posting_from_split(input, SplitOnce(input, " "))

\* -------------------------------------------------------- Balance Validator

RECURSIVE SumLoop(_, _, _, _)
\* a loop that starts the sum again at an amount of another currency
SumLoop_restarting(amounts, i, currency, total) ==
    IF i > Len(amounts)
    THEN IF currency = None THEN R_Err(ErrMsg("No amounts in transaction", <<>>))
         ELSE R_Ok(Amount_new(total, currency[1]))
    ELSE IF currency # None /\ currency[1] # amounts[i].currency
    THEN SumLoop(amounts, i + 1, Some(amounts[i].currency), amounts[i].number)
    ELSE SumLoop(amounts, i + 1, Some(amounts[i].currency),
                 DecAdd(total, amounts[i].number))

\* sum_amounts_it, the loop and the return: currency is the Option seen so
\* far, total the running sum
SumLoop(amounts, i, currency, total) ==
    IF i > Len(amounts)
    THEN IF currency = None THEN R_Err(ErrMsg("No amounts in transaction", <<>>))
         ELSE R_Ok(Amount_new(total, currency[1]))
    ELSE IF currency # None /\ currency[1] # amounts[i].currency
    THEN R_Err(ErrMsg("Multiple currencies in given amounts",
                      <<currency[1], amounts[i].currency>>))
    ELSE SumLoop(amounts, i + 1, Some(amounts[i].currency),
                 DecAdd(total, amounts[i].number))

\* a sum_amounts_it whose total starts at one
sum_amounts_it_from_one(amounts) == SumLoop(amounts, 1, None, Decimal_new(1, 0))

\* sum_amounts_it
sum_amounts_it(amounts) == SumLoop(amounts, 1, None, Decimal_new(0, 0))

\* a check that accepts every single-currency sum
check_sum_any_total(sum) ==
    IF sum.tag # "Ok"
    THEN R_Err(ErrMsg("Invalid collection of amounts in postings", sum.err))
    ELSE R_Ok(<<>>)

\* Transaction::check on the sum of the posting amounts
check_sum(sum) ==
    IF sum.tag # "Ok"
    THEN R_Err(ErrMsg("Invalid collection of amounts in postings", sum.err))
    ELSE IF ~DecEq(sum.val.number, Decimal_new(0, 0))
    THEN R_Err(ErrMsg("Transaction not balanced: total is", sum.val))
    ELSE R_Ok(<<>>)

\* Transaction::check
Transaction_check(self) ==
    IF self.postings = <<>> THEN R_Ok(<<>>)
    ELSE check_sum(sum_amounts_it(
             [i \in 1..Len(self.postings) |-> self.postings[i].amount]))

\* ------------------------------------------------------------- Transaction

\* TransactionFlag
FlagOK == "OK"

FlagError == "Error"

\* parse_flag
parse_flag(s) ==
    IF s = <<"*">> THEN Some(FlagOK)
    ELSE IF s = <<"!">> THEN Some(FlagError)
    ELSE None

\* str::trim_matches('"')
trim_matches_quote(token) ==
    LET a == FindIn(token, 1, {"\""}, FALSE)
    IN  IF a = 0 THEN <<>>
        ELSE SubSeq(token, a, RFindIn(token, Len(token), {"\""}, FALSE))

RECURSIVE HeaderLoop(_, _, _, _, _)
\* parse_narration_and_payee, the loop over the header's tokens and the return
HeaderLoop(header, tokens, i, first, second) ==
    IF i > Len(tokens)
    THEN IF second # None THEN R_Ok([payee |-> first, narration |-> second])
         ELSE R_Ok([payee |-> None, narration |-> first])
    ELSE IF tokens[i][1] # "\"" /\ tokens[i][Len(tokens[i])] # "\""
    THEN R_Err(ErrMsg("Invalid transaction header. Narration/payee must be quoted",
                      header))
    ELSE IF first = None
    THEN HeaderLoop(header, tokens, i + 1, Some(trim_matches_quote(tokens[i])),
                    second)
    ELSE IF second = None
    THEN HeaderLoop(header, tokens, i + 1, first,
                    Some(trim_matches_quote(tokens[i])))
    ELSE R_Err(ErrMsg("Too many quoted strings in transaction header", header))

\* parse_narration_and_payee
parse_narration_and_payee(header) ==
    IF TokenIterator_panics(header)
    THEN R_Panic("TokenIterator does not support multiline strings")
    ELSE HeaderLoop(header, Tokens(header), 1, None, None)

Transaction(date, flag, payee, narration, postings) ==
    [date |-> date, flag |-> flag, payee |-> payee, narration |-> narration,
     postings |-> postings]

RECURSIVE PostingsLoop(_, _, _)
\* a loop body that skips a posting line that fails to parse
PostingsLoop_push_skipping(lines, i, postings, posting) ==
    IF posting.tag = "Panic" THEN posting
    ELSE IF posting.tag = "Err" THEN PostingsLoop(lines, i + 1, postings)
    ELSE PostingsLoop(lines, i + 1, Append(postings, posting.val))

\* Transaction::try_from, the loop body after Posting::try_from(sanitized)
PostingsLoop_push(lines, i, postings, posting) ==
    IF posting.tag = "Panic" THEN posting
    ELSE IF posting.tag = "Err"
    THEN R_Err(ErrMsg("Unable to parse posting", lines[i]))
    ELSE PostingsLoop(lines, i + 1, Append(postings, posting.val))

\* Transaction::try_from, the loop body on the sanitized line
PostingsLoop_line(lines, i, postings, sanitized) ==
    IF sanitized = <<>> THEN PostingsLoop(lines, i + 1, postings)
    ELSE PostingsLoop_push(lines, i, postings, Posting_try_from(sanitized))

\* impl TryFrom<(Date, TransactionFlag, &str)> for Transaction, the loop over
\* the posting lines
PostingsLoop(lines, i, postings) ==
    IF i > Len(lines) THEN R_Ok(postings)
    ELSE PostingsLoop_line(lines, i, postings, Trim(trim_comment_at_end(lines[i])))

\* a Transaction::try_from that runs Transaction::check on what it built
Transaction_from_postings_checked(date, flag, payee, narration, postings) ==
    IF postings.tag # "Ok" THEN postings
    ELSE IF Transaction_check(Transaction(date, flag, payee, narration,
                                          postings.val)).tag # "Ok"
    THEN R_Err(ErrMsg("Transaction not balanced", <<>>))
    ELSE R_Ok(Transaction(date, flag, payee, narration, postings.val))

\* Transaction::try_from, the return after the loop
Transaction_from_postings(date, flag, payee, narration, postings) ==
    IF postings.tag # "Ok" THEN postings
    ELSE R_Ok(Transaction(date, flag, payee, narration, postings.val))

\* Transaction::try_from after parse_narration_and_payee(header.trim())?
Transaction_from_header(date, flag, pn, postings_str) ==
    IF pn.tag # "Ok" THEN pn
    ELSE Transaction_from_postings(date, flag, pn.val.payee, pn.val.narration,
                                   PostingsLoop(Lines(postings_str), 1, <<>>))

\* Transaction::try_from after statement.split_once('\n')
Transaction_from_split(date, flag, sp) ==
    Transaction_from_header(date, flag,
                            parse_narration_and_payee(Trim(sp.before)), sp.after)

\* impl TryFrom<(Date, TransactionFlag, &str)> for Transaction
Transaction_try_from(date, flag, statement) ==
    Transaction_from_split(date, flag, SplitOnce(statement, "\n"))

\* ---------------------------------------------------------- date_and_cmd

\* jiff's Date::from_str on a token: YYYY-MM-DD with a month 1..12 and a day
\* 1..31
Date_from_str(token) ==
    IF /\ Len(token) = 10
       /\ DatePrefix(token)
       /\ DigitsValue(SubSeq(token, 6, 7)) \in 1..12
       /\ DigitsValue(SubSeq(token, 9, 10)) \in 1..31
    THEN R_Ok(token)
    ELSE R_Err(ErrMsg("failed to parse date", token))

\* date_and_cmd, the split of remain into cmd and remain_final at the
\* 1-based index idx of its first whitespace (0: none)
date_and_cmd_at(statement, date, remain, idx) ==
    LET cmd == IF idx = 0 THEN Trim(remain) ELSE SubSeq(remain, 1, idx - 1)
    IN  IF cmd = <<>> THEN R_Err(ErrMsg("No command in entry", statement))
        ELSE R_Ok([date |-> date, cmd |-> cmd,
                   remain |-> IF idx = 0 THEN <<>>
                              ELSE SubSeq(remain, idx, Len(remain))])

\* date_and_cmd after Date::from_str(date)?, remain being trimmed at its start
date_and_cmd_remain(statement, date, remain) ==
    IF date.tag # "Ok" THEN date
    ELSE date_and_cmd_at(statement, date.val, remain,
                         FindIn(remain, 1, WhitespaceChars, TRUE))

\* date_and_cmd after statement.trim_start().split_once(' ')
date_and_cmd_split(statement, sp) ==
    IF ~sp.found THEN R_Err(ErrMsg("No date in entry", statement))
    ELSE date_and_cmd_remain(statement, Date_from_str(sp.before),
                             TrimStart(sp.after))

\* date_and_cmd
date_and_cmd(statement) ==
    date_and_cmd_split(statement, SplitOnce(TrimStart(statement), " "))

\* --------------------------------------------------------- StatementParser

\* EntryVariant
EntryVariant(kind, entry) == [kind |-> kind, entry |-> entry]

\* StatementParser::new_parse_err
new_parse_err(statement, context) ==
    R_Err([context |-> context, failed_statement |-> statement])

\* the panic of TokenIterator::new
TokenIterator_panic == R_Panic("TokenIterator does not support multiline strings")

\* a parse_open that always wraps the currencies in Some
parse_open_tokens_always_some(statement, date, tokens) ==
    IF tokens = <<>>
    THEN new_parse_err(statement, ErrMsg("No account found", <<>>))
    ELSE R_Ok([date |-> date, account |-> tokens[1],
               allowed_currencies |-> Some(Tail(tokens))])

\* StatementParser::parse_open on the tokens of remaining
parse_open_tokens(statement, date, tokens) ==
    IF tokens = <<>>
    THEN new_parse_err(statement, ErrMsg("No account found", <<>>))
    ELSE R_Ok([date |-> date, account |-> tokens[1],
               allowed_currencies |->
                   IF Tail(tokens) = <<>> THEN None ELSE Some(Tail(tokens))])

\* StatementParser::parse_open
parse_open(statement, date, remaining) ==
    IF TokenIterator_panics(remaining) THEN TokenIterator_panic
    ELSE parse_open_tokens(statement, date, Tokens(remaining))

\* StatementParser::parse_close on the tokens of remaining
parse_close_tokens(statement, date, tokens) ==
    IF tokens = <<>>
    THEN new_parse_err(statement, ErrMsg("No close found", <<>>))
    ELSE IF Len(tokens) > 1
    THEN new_parse_err(statement,
             ErrMsg("Unexpected remaining input in close parsing", <<>>))
    ELSE R_Ok([date |-> date, account |-> tokens[1]])

\* StatementParser::parse_close
parse_close(statement, date, remaining) ==
    IF TokenIterator_panics(remaining) THEN TokenIterator_panic
    ELSE parse_close_tokens(statement, date, Tokens(remaining))

\* StatementParser::parse_commodity on remaining.trim()
parse_commodity_trimmed(statement, date, commodity) ==
    IF commodity = <<>>
    THEN new_parse_err(statement, ErrMsg("No commodity specified in entry", <<>>))
    ELSE IF FindIn(commodity, 1, {" "}, TRUE) # 0
    THEN new_parse_err(statement,
             ErrMsg("unexpected remaining input in commodity parsing", commodity))
    ELSE R_Ok([date |-> date, currency |-> commodity])

\* StatementParser::parse_commodity
parse_commodity(statement, date, remaining) ==
    parse_commodity_trimmed(statement, date, Trim(remaining))

\* StatementParser::parse_str_and_price, the return after from_str_exact
str_and_price_number(statement, token_type, tokens, number) ==
    IF number.tag # "Ok"
    THEN new_parse_err(statement, ErrMsg("unable to parse amount number", token_type))
    ELSE R_Ok([str |-> tokens[1], amount |-> Amount_new(number.val, tokens[3])])

\* StatementParser::parse_str_and_price on the tokens of remaining
str_and_price_tokens(statement, token_type, tokens) ==
    IF Len(tokens) < 1
    THEN new_parse_err(statement, ErrMsg("No token found", token_type))
    ELSE IF Len(tokens) < 2
    THEN new_parse_err(statement, ErrMsg("No amount found", <<>>))
    ELSE IF Len(tokens) < 3
    THEN new_parse_err(statement, ErrMsg("No currency found", <<>>))
    ELSE IF Len(tokens) > 3
    THEN new_parse_err(statement, ErrMsg("Unexpected remaining input", token_type))
    ELSE str_and_price_number(statement, token_type, tokens,
                              Decimal_from_str_exact(tokens[2]))

\* StatementParser::parse_str_and_price
parse_str_and_price(statement, remaining, token_type) ==
    IF TokenIterator_panics(remaining) THEN TokenIterator_panic
    ELSE str_and_price_tokens(statement, token_type, Tokens(remaining))

\* StatementParser::parse_balance on parse_str_and_price's result
balance_from(date, r) ==
    IF r.tag # "Ok" THEN r
    ELSE R_Ok([date |-> date, account |-> r.val.str, amount |-> r.val.amount])

\* StatementParser::parse_balance
parse_balance(statement, date, remaining) ==
    balance_from(date, parse_str_and_price(statement, remaining, "balance"))

\* StatementParser::parse_price on parse_str_and_price's result
price_from(date, r) ==
    IF r.tag # "Ok" THEN r
    ELSE R_Ok([date |-> date, currency |-> r.val.str, amount |-> r.val.amount])

\* StatementParser::parse_price
parse_price(statement, date, remaining) ==
    price_from(date, parse_str_and_price(statement, remaining, "price"))

\* StatementParser::parse_transaction, the map_err
transaction_map_err(statement, r) ==
    IF r.tag = "Err"
    THEN new_parse_err(statement, ErrMsg("unable to parse transaction", r.err))
    ELSE r

\* StatementParser::parse_transaction
parse_transaction(statement, date, flag, remaining) ==
    transaction_map_err(statement, Transaction_try_from(date, flag, remaining))

\* the keywords of the dispatcher
kw_open == <<"o", "p", "e", "n">>

kw_close == <<"c", "l", "o", "s", "e">>

kw_balance == <<"b", "a", "l", "a", "n", "c", "e">>

kw_commodity == <<"c", "o", "m", "m", "o", "d", "i", "t", "y">>

kw_price == <<"p", "r", "i", "c", "e">>

\* the Ok value of a directive parser wrapped into its EntryVariant
Wrap(kind, r) == IF r.tag = "Ok" THEN R_Ok(EntryVariant(kind, r.val)) ELSE r

\* a match on cmd whose default arm reads the statement as a commodity
parse_entry_cmd_default_commodity(statement, date, cmd, remaining) ==
    IF cmd = kw_open THEN Wrap("Open", parse_open(statement, date, remaining))
    ELSE Wrap("Commodity", parse_commodity(statement, date, cmd))

\* StatementParser::parse_entry, the match on cmd
parse_entry_cmd(statement, date, cmd, remaining) ==
    IF cmd = kw_open THEN Wrap("Open", parse_open(statement, date, remaining))
    ELSE IF cmd = kw_close THEN Wrap("Close", parse_close(statement, date, remaining))
    ELSE IF cmd = kw_balance
    THEN Wrap("Balance", parse_balance(statement, date, remaining))
    ELSE IF cmd = kw_commodity
    THEN Wrap("Commodity", parse_commodity(statement, date, remaining))
    ELSE IF cmd = kw_price
    THEN Wrap("PriceEntry", parse_price(statement, date, remaining))
    ELSE new_parse_err(statement, ErrMsg("Unknown command in entry", cmd))

\* StatementParser::parse_entry, the transaction branch and the match
parse_entry_flag(statement, date, cmd, remaining, flag) ==
    IF flag # None
    THEN Wrap("Transaction", parse_transaction(statement, date, flag[1], remaining))
    ELSE parse_entry_cmd(statement, date, cmd, remaining)

\* StatementParser::parse_entry after date_and_cmd
parse_entry_dc(statement, dc) ==
    IF dc.tag # "Ok" THEN new_parse_err(statement, dc.err)
    ELSE parse_entry_flag(statement, dc.val.date, dc.val.cmd,
                          trim_comment_at_end(dc.val.remain),
                          parse_flag(dc.val.cmd))

\* StatementParser::parse_entry
parse_entry(statement) == parse_entry_dc(statement, date_and_cmd(statement))

\* ----------------------------------------------------------- ParsedEntries

\* ParsedEntries::default
ParsedEntries_default ==
    [open |-> <<>>, balance |-> <<>>, close |-> <<>>, commodity |-> <<>>,
     price |-> <<>>, transactions |-> <<>>, unhandled_entries |-> <<>>]

\* ParsedEntries::len
ParsedEntries_len(pe) == Len(pe.open) + Len(pe.balance) + Len(pe.close)

\* ParsedEntries::is_empty
ParsedEntries_is_empty(pe) == ParsedEntries_len(pe) = 0

\* ParsedEntries::push
push(pe, entry) ==
    CASE entry.kind = "Open" -> [pe EXCEPT !.open = Append(@, entry.entry)]
      [] entry.kind = "Balance" -> [pe EXCEPT !.balance = Append(@, entry.entry)]
      [] entry.kind = "Close" -> [pe EXCEPT !.close = Append(@, entry.entry)]
      [] entry.kind = "Commodity" -> [pe EXCEPT !.commodity = Append(@, entry.entry)]
      [] entry.kind = "PriceEntry" -> [pe EXCEPT !.price = Append(@, entry.entry)]
      [] entry.kind = "Transaction" ->
            [pe EXCEPT !.transactions = Append(@, entry.entry)]

\* a push_result that drops the statements that failed to parse
push_result_dropping_errors(pe, entry) ==
    IF entry.tag = "Ok" THEN push(pe, entry.val) ELSE pe

\* ParsedEntries::push_result
push_result(pe, entry) ==
    IF entry.tag = "Ok" THEN push(pe, entry.val)
    ELSE [pe EXCEPT !.unhandled_entries = Append(@, entry.err.failed_statement)]

\* ----------------------------------------------------------------- printer

RECURSIVE NatDigits(_)
\* the decimal digits of a natural number, no leading zero but for 0 itself
NatDigits(n) ==
    IF n < 10 THEN <<DigitSeq[n + 1]>>
    ELSE NatDigits(n \div 10) \o <<DigitSeq[(n % 10) + 1]>>

RECURSIVE ZeroPadded(_, _)
\* digits padded with zeros on the left up to width
ZeroPadded(digits, width) ==
    IF Len(digits) >= width THEN digits ELSE ZeroPadded(<<"0">> \o digits, width)

\* Decimal's Display: the sign, the integer part and, when the scale is not
\* zero, a point and scale fractional digits
Decimal_to_string(d) ==
    LET digits == ZeroPadded(NatDigits(IF d.m < 0 THEN -d.m ELSE d.m), d.scale + 1)
        int == SubSeq(digits, 1, Len(digits) - d.scale)
        frac == SubSeq(digits, Len(digits) - d.scale + 1, Len(digits))
    IN  (IF d.m < 0 THEN <<"-">> ELSE <<>>)
        \o int \o (IF d.scale = 0 THEN <<>> ELSE <<".">> \o frac)

\* impl Display for Amount: "{} {}", number and currency
Amount_to_string(a) == Decimal_to_string(a.number) \o <<" ">> \o a.currency

\* print_posting, the cost clause
print_cost(cost) ==
    IF cost = None THEN <<>>
    ELSE IF cost[1] = Automatic THEN <<" ", "{", " ", "}", " ">>
    ELSE <<" ", "{", " ">> \o Amount_to_string(cost[1][2].amount) \o <<" ", "}", " ">>

\* print_posting, the price clause
print_price(price) ==
    IF price = None THEN <<>>
    ELSE <<" ", "@", " ">> \o Amount_to_string(price[1].amount) \o <<" ">>

\* print_posting
print_posting(posting) ==
    TrimEnd(<<" ", " ", " ", " ">> \o posting.account \o <<" ">>
            \o Amount_to_string(posting.amount)
            \o print_price(posting.price) \o print_cost(posting.cost))

\* ------------------------------------------------------------------ inputs

\* the date literal of the input lines
DateText == <<"2", "0", "2", "4", "-", "1", "0", "-", "0", "4">>

\* the lines an input is assembled from
L_blank == <<>>

L_comment == <<";", " ", "c">>

L_hash_comment == <<"#", " ", "c">>

L_open == DateText \o <<" ", "o", "p", "e", "n", " ", "A", " ", "C">>

L_close_indented == <<" ", " ">> \o DateText \o <<" ", "c", "l", "o", "s", "e", " ", "A", " ">>

L_balance == DateText \o <<" ", "b", "a", "l", "a", "n", "c", "e", " ", "A", " ", "5", " ", "C">>

L_commodity == DateText \o <<" ", "c", "o", "m", "m", "o", "d", "i", "t", "y", " ", "C">>

L_price == DateText \o <<" ", "p", "r", "i", "c", "e", " ", "C", " ", "5", " ", "U">>

L_unknown == DateText \o <<" ", "n", "o", "t", "e", " ", "A">>

L_star == DateText \o <<" ", "*">>

L_star_indented == <<" ">> \o DateText \o <<" ", " ", "*", " ", "\"", "n", "\"">>

L_bang == DateText \o <<" ", "!">>

L_posting == <<" ", " ", "A", " ", "5", " ", "C">>

L_posting_other == <<" ", " ", "B", " ", "-", "5", " ", "U", " ", ";", " ", "c">>

L_malformed == <<" ", " ", "A", " ", "x">>

LineCatalog ==
    {L_blank, L_comment, L_open, L_close_indented, L_balance, L_price,
     L_unknown, L_star, L_star_indented, L_bang, L_posting,
     L_posting_other, L_malformed}

RECURSIVE Join(_)
\* the input text: the lines joined by newlines
Join(lines) ==
    IF lines = <<>> THEN <<>>
    ELSE IF Len(lines) = 1 THEN lines[1]
    ELSE lines[1] \o <<"\n">> \o Join(Tail(lines))

\* inputs of at most MaxLines catalog lines
CatalogInputs == UNION {[1..n -> LineCatalog] : n \in 0..MaxLines}

\* inputs of the shape of test_statement_iterator: two single-line
\* directives, a comment line, a blank line, a `*` header, a comment line,
\* three posting lines and a final single-line directive
SegmenterTestInputs ==
    {<<d1, d2, c1, L_blank, h, c2, p1, p2, p3, d3>> :
        d1 \in {L_commodity}, d2 \in {L_balance, L_open, L_close_indented},
        c1 \in {L_comment, L_hash_comment}, h \in {L_star, L_star_indented},
        c2 \in {L_comment}, p1 \in {L_posting, L_posting_other},
        p2 \in {L_posting}, p3 \in {L_posting, L_posting_other},
        d3 \in {L_commodity, L_unknown, L_close_indented}}

\* a line led by a bare `*`
L_heading == <<"*", " ", "h">>

\* the lines that are skipped wherever they stand
SkippedLines == {L_blank, L_comment, L_heading}

\* seq with x inserted after its first k elements
InsertAt(seq, k, x) == SubSeq(seq, 1, k) \o <<x>> \o SubSeq(seq, k + 1, Len(seq))

\* a skipped line inserted anywhere into a directive, a block and a
\* directive after a block
SkippedLineInputs ==
    UNION {{InsertAt(base, k, x) : k \in 0..Len(base), x \in SkippedLines} :
              base \in {<<L_open>>, <<L_star, L_posting>>,
                        <<L_star, L_posting, L_open>>, <<L_star, L_open>>}}

Inputs == CatalogInputs \cup SegmenterTestInputs \cup SkippedLineInputs

\* the amounts the posting lists of the balance validator are built from
USD == <<"U", "S", "D">>

CHF == <<"C", "H", "F">>

TestAmounts ==
    {Amount_new(n, c) :
        n \in {Decimal_new(100, 0), Decimal_new(-100, 0), Decimal_new(-50, 0),
               Decimal_new(-10000, 2), Decimal_new(5, 1)},
        c \in {USD, CHF}}

\* Largest number of postings of a transaction under check.
MaxPostings == 3

\* the characters transaction headers are built from
HeaderChars == {"\"", "a", " "}

\* Largest length of a transaction header.
MaxHeaderLen == 6

HeaderInputs == UNION {[1..n -> HeaderChars] : n \in 0..MaxHeaderLen}

\* ------------------------------------------------------------------- state

VARIABLES
    input_lines,     \* the lines the input text was assembled from
    data,            \* the input buffer of parse_entries_from_string
    position,        \* StatementIterator.line_iterator.position
    state,           \* StatementIterator.state
    yielded,         \* the slices StatementIterator::next has returned
    parsed_entries,  \* the ParsedEntries being filled
    pc,              \* "running", "done" (Ok(parsed_entries) returned), "panic"
    panic_msg,       \* the message of the panic that ended the parse
    amounts,         \* the posting amounts of the transaction under check
    sum_result,      \* Some(result of sum_amounts_it on amounts), or None
    check_result,    \* Some(result of Transaction::check), or None
    header,          \* a transaction header
    header_result,   \* Some(result of parse_narration_and_payee), or None
    call,            \* a function of the parser called on its own: fn and arg
    call_result      \* Some(what the call returned), or None

parser_vars ==
    <<input_lines, data, position, state, yielded, parsed_entries, pc, panic_msg>>

validator_vars == <<amounts, sum_result, check_result>>

header_vars == <<header, header_result>>

call_vars == <<call, call_result>>

vars == <<parser_vars, validator_vars, header_vars, call_vars>>

\* the text of a yielded slice
SliceText(y) == Sub(data, y.s, y.e)

\* no text is being parsed
ParserIdle ==
    /\ input_lines = <<>>
    /\ data = <<>>
    /\ position = 0
    /\ state = SearchingNextStart
    /\ yielded = <<>>
    /\ parsed_entries = ParsedEntries_default
    /\ pc = "idle"
    /\ panic_msg = ""

\* no transaction is under check
ValidatorIdle ==
    /\ amounts = <<>>
    /\ sum_result = None
    /\ check_result = None

\* no header is being parsed
HeaderIdle ==
    /\ header = <<>>
    /\ header_result = None

\* no function is called on its own
CallIdle ==
    /\ call = [fn |-> "none", arg |-> <<>>]
    /\ call_result = None

\* ------------------------------------------- parse_entries_from_string

\* parse_entries_from_string, up to the first call of next
Init ==
    /\ input_lines \in Inputs
    /\ data = Join(input_lines)
    /\ position = 0
    /\ state = SearchingNextStart
    /\ yielded = <<>>
    /\ parsed_entries = ParsedEntries_default
    /\ pc = "running"
    /\ panic_msg = ""
    /\ ValidatorIdle
    /\ HeaderIdle
    /\ CallIdle

\* the closure of for_each on parse_entry's result: push_result, or the
\* panic of parse_entry ends the parse
ForEach_push(entry) ==
    IF entry.tag = "Panic"
    THEN /\ pc' = "panic"
         /\ panic_msg' = entry.err
         /\ UNCHANGED parsed_entries
    ELSE /\ parsed_entries' = push_result(parsed_entries, entry)
         /\ UNCHANGED <<pc, panic_msg>>

\* next has returned r = Some(statement): the map closure parses it
ForEach_some(r) ==
    /\ r.tag = "Some"
    /\ position' = r.position
    /\ state' = r.state
    /\ yielded' = Append(yielded, [s |-> r.s, e |-> r.e, arm |-> r.arm])
    /\ ForEach_push(parse_entry(Sub(data, r.s, r.e)))

\* one round of for_each: next returns a statement, parse_entry parses it,
\* push_result stores the outcome
ForEachStep ==
    /\ pc = "running"
    /\ ForEach_some(StatementIterator_next(data, position, state))
    /\ UNCHANGED <<input_lines, data, validator_vars, header_vars, call_vars>>

\* next has returned r, a None or a panic
ForEach_stop(r, tag) ==
    /\ r.tag = tag
    /\ position' = r.position
    /\ state' = r.state

\* next returns None: for_each ends and Ok(parsed_entries) is returned
ForEachEnd ==
    /\ pc = "running"
    /\ ForEach_stop(StatementIterator_next(data, position, state), "None")
    /\ pc' = "done"
    /\ UNCHANGED <<input_lines, data, yielded, parsed_entries, panic_msg,
                   validator_vars, header_vars, call_vars>>

\* next meets an unhandled line: panic!("Unhandled line: {}", line)
UnhandledLine ==
    /\ pc = "running"
    /\ ForEach_stop(StatementIterator_next(data, position, state), "Panic")
    /\ pc' = "panic"
    /\ panic_msg' = "Unhandled line"
    /\ UNCHANGED <<input_lines, data, yielded, parsed_entries, validator_vars,
                   header_vars, call_vars>>

Next == ForEachStep \/ ForEachEnd \/ UnhandledLine

Spec == Init /\ [][Next]_vars

\* ------------------------------------------------------ Transaction::check

\* the transaction of test_transaction_check holding the amounts pushed
TestTransaction(amts) ==
    Transaction(<<"2", "0", "2", "3", "-", "0", "1", "-", "0", "1">>, FlagOK,
                None, None,
                [i \in 1..Len(amts) |-> Posting(<<"A">>, amts[i], None, None)])

InitValidator ==
    /\ ParserIdle
    /\ ValidatorIdle
    /\ HeaderIdle
    /\ CallIdle

\* t.postings.push(Posting { account, amount, price: None, cost: None })
PushPosting ==
    /\ Len(amounts) < MaxPostings
    /\ \E a \in TestAmounts : amounts' = Append(amounts, a)
    /\ sum_result' = None
    /\ check_result' = None
    /\ UNCHANGED <<parser_vars, header_vars, call_vars>>

\* t.check()
CheckTransaction ==
    /\ check_result' = Some(Transaction_check(TestTransaction(amounts)))
    /\ UNCHANGED <<amounts, sum_result, parser_vars, header_vars, call_vars>>

\* sum_amounts_it(amounts.iter())
SumAmounts ==
    /\ sum_result' = Some(sum_amounts_it(amounts))
    /\ UNCHANGED <<amounts, check_result, parser_vars, header_vars, call_vars>>

NextValidator == PushPosting \/ CheckTransaction \/ SumAmounts

SpecValidator == InitValidator /\ [][NextValidator]_vars

\* ----------------------------------------------- parse_narration_and_payee

InitHeader ==
    /\ ParserIdle
    /\ ValidatorIdle
    /\ header \in HeaderInputs
    /\ header_result = None
    /\ CallIdle

\* parse_narration_and_payee(header.trim())
ParseHeader ==
    /\ header_result = None
    /\ header_result' = Some(parse_narration_and_payee(Trim(header)))
    /\ UNCHANGED <<header, parser_vars, validator_vars, call_vars>>

NextHeader == ParseHeader

SpecHeader == InitHeader /\ [][NextHeader]_vars

\* --------------------------------------------- functions called on their own

\* Largest length of a text handed to the TokenIterator.
MaxTextLen == 6

\* the characters the texts of the TokenIterator are built from
TokenChars == {"a", " ", ";", "#"}

TokenTexts == UNION {[1..n -> TokenChars] : n \in 0..MaxTextLen}

\* the amounts of the posting lines: text and value
QuantityCatalog ==
    {[text |-> <<"5", " ", "C">>,
      amount |-> Amount_new(Decimal_new(5, 0), <<"C">>)],
     [text |-> <<"-", "6", "U">>,
      amount |-> Amount_new(Decimal_new(-6, 0), <<"U">>)],
     [text |-> <<"3", " ", " ", "C">>,
      amount |-> Amount_new(Decimal_new(3, 0), <<"C">>)],
     [text |-> <<"0", " ", "C">>,
      amount |-> Amount_new(Decimal_new(0, 0), <<"C">>)]}

\* no clause
NoClause == [text |-> <<>>, form |-> "none", amount |-> None]

\* the price clauses of the posting lines: text, form and declared amount
PriceClauseCatalog ==
    {NoClause,
     [text |-> <<"@", " ", "2", " ", "U">>, form |-> "unit",
      amount |-> Some(Amount_new(Decimal_new(2, 0), <<"U">>))],
     [text |-> <<"@", "@", " ", "6", "0", " ", "F">>, form |-> "total",
      amount |-> Some(Amount_new(Decimal_new(60, 0), <<"F">>))],
     [text |-> <<"@", "@", "1", "0", "F">>, form |-> "total",
      amount |-> Some(Amount_new(Decimal_new(10, 0), <<"F">>))]}

\* the cost clauses of the posting lines: text, form and declared amount
CostClauseCatalog ==
    {NoClause,
     [text |-> <<"{", "2", " ", "U", "}">>, form |-> "unit",
      amount |-> Some(Amount_new(Decimal_new(2, 0), <<"U">>))],
     [text |-> <<"{", "{", "6", "0", " ", "F", "}", "}">>, form |-> "total",
      amount |-> Some(Amount_new(Decimal_new(60, 0), <<"F">>))],
     [text |-> <<"{", "{", " ", "1", "0", "F", " ", "}", "}">>, form |-> "total",
      amount |-> Some(Amount_new(Decimal_new(10, 0), <<"F">>))],
     [text |-> <<"{", "}">>, form |-> "empty", amount |-> None],
     [text |-> <<"{", "{", "}", "}">>, form |-> "empty", amount |-> None]}

\* a clause text after a space, nothing when there is no clause
Spaced(text) == IF text = <<>> THEN <<>> ELSE <<" ">> \o text

\* the posting line of account A with the amount q, the price clause p and
\* the cost clause c
PostingText(q, p, c) ==
    <<"A", " ">> \o q.text \o Spaced(p.text) \o Spaced(c.text)

PostingTexts ==
    {PostingText(q, p, c) :
        q \in QuantityCatalog, p \in PriceClauseCatalog, c \in CostClauseCatalog}

\* Largest number of clauses of a text handed to parse_price_and_cost.
MaxClauses == 2

\* a malformed clause
BadClause(text) == [text |-> text, form |-> "bad", amount |-> None]

\* malformed clauses: an unterminated brace, mismatched braces, clauses
\* without a number, a bare amount and unrecognized text
MalformedClauses ==
    {BadClause(<<"{", "7", " ", "U">>),
     BadClause(<<"{", "7", " ", "U", "}", "}">>),
     BadClause(<<"{", "{", "7", " ", "U", "}">>),
     BadClause(<<"@", " ", "U">>),
     BadClause(<<"{", "U", "}">>),
     BadClause(<<"9", " ", "U">>),
     BadClause(<<"x">>)}

\* the price clauses, as the kind of a clause
PriceClauses == PriceClauseCatalog \ {NoClause}

\* the cost clauses holding an amount
CostClauses == {c \in CostClauseCatalog : c.form \in {"unit", "total"}}

\* sequences of at most MaxClauses clauses
ClauseSeqs ==
    UNION {[1..n -> PriceClauses \cup CostClauses \cup MalformedClauses] :
               n \in 0..MaxClauses}

\* the whitespace around a text
Paddings == {<<>>, <<" ">>}

RECURSIVE JoinSpaced(_)
\* the texts of the clauses, one space between two of them
JoinSpaced(seq) ==
    IF seq = <<>> THEN <<>>
    ELSE IF Len(seq) = 1 THEN seq[1].text
    ELSE seq[1].text \o <<" ">> \o JoinSpaced(Tail(seq))

\* the remainder of a posting line holding the clauses, within the padding
ClauseText(seq, pad) == pad \o JoinSpaced(seq) \o pad

ClauseTexts == {ClauseText(seq, pad) : seq \in ClauseSeqs, pad \in Paddings}

\* the comments that follow a posting on its line
CommentSuffixes ==
    {<<>>, <<" ", ";", "c">>, <<" ", ";", "c", " ", "#", "c">>,
     <<"#", "c", ";", "c">>, <<" ", ";", " ", "#", " ", ";">>}

\* what follows the commented posting line in its transaction
PostingTails == {<<>>, <<"\n">> \o L_posting_other}

\* a transaction whose first posting line is `  A 5 C` followed by a comment
CommentedTransaction(suffix, tail) ==
    L_star \o <<"\n">> \o L_posting \o suffix \o tail

CommentedTransactions ==
    {CommentedTransaction(s, t) : s \in CommentSuffixes, t \in PostingTails}

\* the statement of a date, a command and what follows it
Statement(date, cmd, rest) == date \o <<" ">> \o cmd \o rest

\* the number texts of balance and price directives: text and value
NumberCatalog ==
    {[text |-> <<"5">>, value |-> Some(Decimal_new(5, 0))],
     [text |-> <<"-", "1", ".", "5">>, value |-> Some(Decimal_new(-15, 1))],
     [text |-> <<"5", ",", "6">>, value |-> None],
     [text |-> <<>>, value |-> None]}

\* the currency texts of balance and price directives
CurrencyTexts == {<<"C">>, <<>>, <<"1">>}

\* what separates the number from the currency
Separators == {<<>>, <<" ">>}

\* what follows the currency
Extras == {<<>>, <<" ", "x">>}

\* `<name> <number><sep><currency><extra>` after balance or price
NameAndAmount(num, sep, cur, extra) ==
    <<" ", "A", " ">> \o num.text \o sep \o cur \o extra

BalanceAndPriceTexts ==
    {Statement(DateText, kw, NameAndAmount(num, sep, cur, extra)) :
        kw \in {kw_balance, kw_price}, num \in NumberCatalog,
        sep \in Separators, cur \in CurrencyTexts, extra \in Extras}

\* Largest length of what follows `open `.
MaxOpenLen == 5

\* what follows `open `: account and currencies, spaces between them
OpenRemainders == UNION {[1..n -> {"A", "C", " "}] : n \in 0..MaxOpenLen}

OpenTexts == {Statement(DateText, kw_open, <<" ">> \o r) : r \in OpenRemainders}

\* first tokens: a date, a date of month 13, a word, nothing
DateParts ==
    {DateText, <<"2", "0", "2", "4", "-", "1", "3", "-", "0", "4">>, <<"x">>, <<>>}

\* second tokens: a keyword, unknown words, a flag followed by a letter,
\* nothing
CommandParts ==
    {kw_open, <<"n", "o", "t", "e">>, <<"o", "p", "e", "n", "s">>,
     <<"*", "x">>, <<>>}

\* what follows the second token
CommandTails == {<<>>, <<" ", "A">>, <<"\n">> \o L_posting}

DispatchTexts ==
    {Statement(d, c, t) : d \in DateParts, c \in CommandParts, t \in CommandTails}
    \cup DateParts

\* the statements handed to parse_entry
EntryTexts ==
    CommentedTransactions \cup BalanceAndPriceTexts \cup OpenTexts
    \cup DispatchTexts

\* the currencies at the head of the text handed to consume_amount
ConsumeCurrencies == {<<"C">>, <<"B", "T", "C">>}

\* what follows the currency: nothing or text led by a non-alphabetic character
ConsumeRests == {<<>>, <<" ", "x">>, <<"1", "y">>, <<" ", "5", " ", "D">>}

\* what follows the number when no currency does
BareRests == {<<>>, <<" ", "1">>, <<".">>}

\* `<number><sep><currency><rest>`
AmountAndRest(num, sep, cur, rest) == num.text \o sep \o cur \o rest

\* the texts handed to consume_amount
ConsumeTexts ==
    {AmountAndRest(num, sep, cur, rest) :
        num \in NumberCatalog, sep \in Separators, cur \in ConsumeCurrencies,
        rest \in ConsumeRests}
    \cup {AmountAndRest(num, sep, <<>>, rest) :
             num \in NumberCatalog, sep \in Separators, rest \in BareRests}

\* the amounts, prices and costs of the postings handed to print_posting,
\* each under the letter that names it
PrintedAmounts ==
    {[key |-> "a", val |-> Amount_new(Decimal_new(5, 0), <<"C">>)],
     [key |-> "b", val |-> Amount_new(Decimal_new(-15, 1), <<"U">>)],
     [key |-> "c", val |-> Amount_new(Decimal_new(5, 2), <<"C">>)]}

PrintedPrices ==
    {[key |-> "n", val |-> None],
     [key |-> "p", val |-> Some(Price(Amount_new(Decimal_new(2, 0), <<"U">>)))],
     [key |-> "q", val |-> Some(Price(Amount_new(Decimal_new(105, 1), <<"F">>)))]}

PrintedCosts ==
    {[key |-> "n", val |-> None],
     [key |-> "k", val |-> Some(Known(Cost(Amount_new(Decimal_new(3, 0), <<"F">>))))],
     [key |-> "l", val |-> Some(Known(Cost(Amount_new(Decimal_new(25, 2), <<"U">>))))]}

\* the names of the postings handed to print_posting
PrintedPostings ==
    {<<a.key, p.key, c.key>> :
        a \in PrintedAmounts, p \in PrintedPrices, c \in PrintedCosts}

\* the posting of a name: account A, per-unit price and cost
PostingNamed(name) ==
    Posting(<<"A">>,
            (CHOOSE a \in PrintedAmounts : a.key = name[1]).val,
            (CHOOSE p \in PrintedPrices : p.key = name[2]).val,
            (CHOOSE c \in PrintedCosts : c.key = name[3]).val)

\* the calls: the function and its argument
Calls(fn, args) == {[fn |-> fn, arg |-> a] : a \in args}

CallInputs ==
    Calls("TokenIterator", TokenTexts)
    \cup Calls("Posting::try_from", PostingTexts)
    \cup Calls("parse_price_and_cost", ClauseTexts)
    \cup Calls("parse_entry", EntryTexts)
    \cup Calls("consume_amount", ConsumeTexts)
    \cup Calls("print_posting", PrintedPostings)

InitCall ==
    /\ ParserIdle
    /\ ValidatorIdle
    /\ HeaderIdle
    /\ call \in CallInputs
    /\ call_result = None

\* the call of fn is pending
Pending(fn) == call.fn = fn /\ call_result = None

\* TokenIterator::new(arg).collect()
CollectTokens(arg) ==
    IF TokenIterator_panics(arg) THEN TokenIterator_panic ELSE R_Ok(Tokens(arg))

\* TokenIterator::new(arg).collect::<Vec<_>>()
CallTokenIterator ==
    /\ Pending("TokenIterator")
    /\ call_result' = Some(CollectTokens(call.arg))
    /\ UNCHANGED <<call, parser_vars, validator_vars, header_vars>>

\* Posting::try_from(arg)
CallPostingTryFrom ==
    /\ Pending("Posting::try_from")
    /\ call_result' = Some(Posting_try_from(call.arg))
    /\ UNCHANGED <<call, parser_vars, validator_vars, header_vars>>

\* parse_price_and_cost(arg)
CallParsePriceAndCost ==
    /\ Pending("parse_price_and_cost")
    /\ call_result' = Some(parse_price_and_cost(call.arg))
    /\ UNCHANGED <<call, parser_vars, validator_vars, header_vars>>

\* StatementParser::new(arg).parse_entry()
CallParseEntry ==
    /\ Pending("parse_entry")
    /\ call_result' = Some(parse_entry(call.arg))
    /\ UNCHANGED <<call, parser_vars, validator_vars, header_vars>>

\* consume_amount(arg)
CallConsumeAmount ==
    /\ Pending("consume_amount")
    /\ call_result' = Some(consume_amount(call.arg))
    /\ UNCHANGED <<call, parser_vars, validator_vars, header_vars>>

\* the line print_posting(arg) read back as the transaction assembler reads
\* a posting line: Posting::try_from(trim_comment_at_end(line).trim())
PrintAndParse(line) ==
    [text |-> line, posting |-> Posting_try_from(Trim(trim_comment_at_end(line)))]

\* print_posting(&posting) on the posting named by arg, and the printed line
\* parsed
CallPrintPosting ==
    /\ Pending("print_posting")
    /\ call_result' = Some(PrintAndParse(print_posting(PostingNamed(call.arg))))
    /\ UNCHANGED <<call, parser_vars, validator_vars, header_vars>>

NextCall ==
    \/ CallTokenIterator
    \/ CallPostingTryFrom
    \/ CallParsePriceAndCost
    \/ CallParseEntry
    \/ CallConsumeAmount
    \/ CallPrintPosting

SpecCall == InitCall /\ [][NextCall]_vars

\* ------------------------------------------------------- properties: helpers

\* the offset at which the line holding offset o begins
LineBegin(o) == RFindIn(data, o, {"\n"}, TRUE)

\* the offset at which the line holding offset o ends
LineEnd(o) ==
    LET k == FindIn(data, o + 1, {"\n"}, TRUE)
    IN  IF k = 0 THEN Len(data) ELSE k - 1

\* parse_entry's result on each statement yielded so far
ParseResults == [i \in 1..Len(yielded) |-> parse_entry(SliceText(yielded[i]))]

\* the entries of the results that parsed to the given kind, in order
EntriesOfKind(results, kind) ==
    LET sel == SelectSeq(results, LAMBDA r : r.tag = "Ok" /\ r.val.kind = kind)
    IN  [k \in 1..Len(sel) |-> sel[k].val.entry]

\* the texts of the yielded statements whose result is an error, in order
FailedTexts(results) ==
    LET idx == SelectSeq([i \in 1..Len(results) |-> i],
                         LAMBDA i : results[i].tag = "Err")
    IN  [k \in 1..Len(idx) |-> SliceText(yielded[idx[k]])]

\* the number of entries held by all the collections of pe
TotalSize(pe) ==
    Len(pe.open) + Len(pe.close) + Len(pe.balance) + Len(pe.commodity)
    + Len(pe.price) + Len(pe.transactions) + Len(pe.unhandled_entries)

\* every collection of pe holds what the results say, and nothing else
ClassifiedAs(pe, results) ==
    /\ pe.open = EntriesOfKind(results, "Open")
    /\ pe.close = EntriesOfKind(results, "Close")
    /\ pe.balance = EntriesOfKind(results, "Balance")
    /\ pe.commodity = EntriesOfKind(results, "Commodity")
    /\ pe.price = EntriesOfKind(results, "PriceEntry")
    /\ pe.transactions = EntriesOfKind(results, "Transaction")
    /\ pe.unhandled_entries = FailedTexts(results)
    /\ TotalSize(pe) = Len(results)

\* ----------------------------------------------------------------------- C1

\* C1: while segmentation has not failed, every statement yielded so far is
\* classified exactly once: each per-kind collection holds, in order, exactly
\* the statements that parsed to its kind, unhandled_entries holds exactly the
\* raw texts of the statements that failed to parse, and the sizes of the
\* seven collections sum to the number of statements yielded.
C1_ClassifiedExactlyOnce ==
    pc \in {"running", "done"} => ClassifiedAs(parsed_entries, ParseResults)

\* C1 witness: a finished parse of three statements whose first failed to
\* parse and whose later ones were still stored, one of them an open.
C1_Witness ==
    /\ pc = "done"
    /\ Len(yielded) = 3
    /\ parsed_entries.unhandled_entries = <<SliceText(yielded[1])>>
    /\ Len(parsed_entries.open) = 1
    /\ TotalSize(parsed_entries) = 3

\* ----------------------------------------------------------------------- C2

\* C2: a top-level line that is neither skippable nor a statement start is
\* reported to the caller as an error value: the parse never ends in the
\* panic of the segmenter.
C2_MalformedLineIsAnErrorValue ==
    ~(pc = "panic" /\ panic_msg = "Unhandled line")

\* ----------------------------------------------------------------------- C3

\* every posting line parses, blank and comment-only lines aside
PostingLinesParse(lines) ==
    \A i \in 1..Len(lines) :
        \/ Trim(trim_comment_at_end(lines[i])) = <<>>
        \/ Posting_try_from(Trim(trim_comment_at_end(lines[i]))).tag = "Ok"

\* header and posting lines of a transaction text are well formed
WellFormedBody(sp) ==
    /\ parse_narration_and_payee(Trim(sp.before)).tag = "Ok"
    /\ PostingLinesParse(Lines(sp.after))

\* dc is the date and the flag of a transaction whose body is well formed
WellFormedFrom(dc) ==
    /\ dc.tag = "Ok"
    /\ parse_flag(dc.val.cmd) # None
    /\ WellFormedBody(SplitOnce(trim_comment_at_end(dc.val.remain), "\n"))

\* the statement is a syntactically well-formed transaction
WellFormedTransaction(statement) == WellFormedFrom(date_and_cmd(statement))

\* the yielded statements that are well-formed transactions
WellFormedYielded ==
    {i \in 1..Len(yielded) : WellFormedTransaction(SliceText(yielded[i]))}

\* C3: parsing does not enforce the balance: every well-formed transaction
\* statement yielded so far is held by `transactions` and none of them by
\* unhandled_entries, whatever its postings sum to.
C3_ParsingIgnoresBalance ==
    pc \in {"running", "done"} =>
        /\ Len(parsed_entries.transactions) = Cardinality(WellFormedYielded)
        /\ \A i \in WellFormedYielded :
               \A k \in 1..Len(parsed_entries.unhandled_entries) :
                   parsed_entries.unhandled_entries[k] # SliceText(yielded[i])

\* C3 witness: a finished parse holding a transaction of two postings that
\* Transaction::check rejects.
C3_Witness ==
    /\ pc = "done"
    /\ \E j \in 1..Len(parsed_entries.transactions) :
           /\ Len(parsed_entries.transactions[j].postings) = 2
           /\ Transaction_check(parsed_entries.transactions[j]).tag = "Err"

\* ----------------------------------------------------------------- C4, C5

\* all the amounts have the currency of the first
SameCurrency(amts) == \A i \in 1..Len(amts) : amts[i].currency = amts[1].currency

\* the largest scale among the amounts
LargestScale(amts) ==
    IF amts = <<>> THEN 0
    ELSE CHOOSE s \in {amts[i].number.scale : i \in 1..Len(amts)} :
             \A i \in 1..Len(amts) : amts[i].number.scale <= s

RECURSIVE SumAtScale(_, _)
\* the arithmetic sum of the amounts' numbers, in units of 10^(-sc)
SumAtScale(amts, sc) ==
    IF amts = <<>> THEN 0
    ELSE Head(amts).number.m * Pow10(sc - Head(amts).number.scale)
         + SumAtScale(Tail(amts), sc)

\* the arithmetic sum of the amounts' numbers as a Decimal
ArithmeticSum(amts) ==
    Decimal_new(SumAtScale(amts, LargestScale(amts)), LargestScale(amts))

\* the currency of the first amount that differs from the first one's
FirstOtherCurrency(amts) ==
    amts[CHOOSE i \in 1..Len(amts) :
             /\ amts[i].currency # amts[1].currency
             /\ \A j \in 1..(i - 1) : amts[j].currency = amts[1].currency].currency

\* what Transaction::check has to answer on the amounts
CheckAnswers(r, amts) ==
    /\ r.tag = "Ok" <=>
           \/ amts = <<>>
           \/ SameCurrency(amts) /\ ArithmeticSum(amts).m = 0
    /\ ~SameCurrency(amts) =>
           /\ r.tag = "Err"
           /\ r.err.msg = "Invalid collection of amounts in postings"
    /\ SameCurrency(amts) /\ amts # <<>> /\ ArithmeticSum(amts).m # 0 =>
           /\ r.tag = "Err"
           /\ r.err.msg = "Transaction not balanced: total is"
           /\ DecEq(r.err.arg.number, ArithmeticSum(amts))

\* C4: Transaction::check returns Ok exactly when there is no posting, or all
\* the amounts share one currency and their numbers sum to exactly zero; it
\* returns the currency error on mixed currencies and the error reporting the
\* total on a non-zero sum. The answer is judged against the amounts the
\* transaction holds after the call, which CheckTransaction leaves unchanged.
C4_CheckIffBalanced ==
    check_result # None => CheckAnswers(check_result[1], amounts)

\* C4 witness: 100 USD followed by -100 USD has been checked and passes.
C4_Witness ==
    /\ amounts = <<Amount_new(Decimal_new(100, 0), USD),
                   Amount_new(Decimal_new(-100, 0), USD)>>
    /\ check_result = Some(R_Ok(<<>>))

\* what sum_amounts_it has to answer on the amounts
SumAnswers(r, amts) ==
    /\ amts # <<>> /\ SameCurrency(amts) =>
           /\ r.tag = "Ok"
           /\ DecEq(r.val.number, ArithmeticSum(amts))
           /\ r.val.currency = amts[1].currency
    /\ ~SameCurrency(amts) =>
           /\ r.tag = "Err"
           /\ r.err.msg = "Multiple currencies in given amounts"
           /\ r.err.arg = <<amts[1].currency, FirstOtherCurrency(amts)>>

ExpectedStatement(lines, i) ==
    CASE i = 1 -> Trim(lines[1])
      [] i = 2 -> Trim(lines[2])
      [] i = 3 -> Join(SubSeq(lines, 5, 9))
      [] i = 4 -> lines[10]

\* C6: on an input of two single-line directives, a comment line, a blank
\* line, a `*` header followed by a comment line and three posting lines, and
\* a final single-line directive, the iterator yields exactly four
\* statements in input order, the third being the text from the header line
\* through the last posting line with the comment line inside, and then None.
C6_FourStatements ==
    input_lines \in SegmenterTestInputs =>
        /\ pc # "panic"
        /\ Len(yielded) <= 4
        /\ \A i \in 1..Len(yielded) :
               /\ Trim(SliceText(yielded[i])) = Trim(ExpectedStatement(input_lines, i))
               /\ i = 3 => SliceText(yielded[i]) = ExpectedStatement(input_lines, i)
        /\ pc = "done" => Len(yielded) = 4
        /\ pc = "running" /\ Len(yielded) = 4 =>
               StatementIterator_next(data, position, state).tag = "None"

\* C6 witness: such an input has been read to its end.
C6_Witness ==
    /\ input_lines \in SegmenterTestInputs
    /\ pc = "done"
    /\ Len(yielded) = 4
    /\ yielded[3].arm = "multiline"

\* ----------------------------------------------------------------------- C7

\* C7: the slice of a multi-line statement that is ended by a later statement
\* start begins at the header line's start and contains the whole header
\* line, whatever the number of posting lines, zero included.
C7_BlockHoldsItsHeader ==
    \A i \in 1..Len(yielded) :
        yielded[i].arm = "multiline" =>
            /\ yielded[i].s = LineBegin(yielded[i].s)
            /\ yielded[i].e >= LineEnd(yielded[i].s)

\* ----------------------------------------------------------------------- C8

\* C8 as stated: every yielded slice begins where its line begins, the
\* leading whitespace of a statement-start line being kept.
C8_SliceIsUntrimmedLine ==
    \A i \in 1..Len(yielded) : yielded[i].s = LineBegin(yielded[i].s)

\* C8 amended: a single-line statement found while searching for the next
\* start is yielded trimmed at both ends; a single-line statement that ended
\* a multi-line block is yielded as its whole untrimmed line; a multi-line
\* statement begins where its header line begins.
C8_SliceByArm ==
    \A i \in 1..Len(yielded) :
        /\ yielded[i].arm = "single" =>
               SliceText(yielded[i]) =
                   Trim(Sub(data, LineBegin(yielded[i].s), LineEnd(yielded[i].s)))
        /\ yielded[i].arm = "found_single" =>
               /\ yielded[i].s = LineBegin(yielded[i].s)
               /\ yielded[i].e = LineEnd(yielded[i].s)
        /\ yielded[i].arm \in {"multiline", "multiline_eof"} =>
               yielded[i].s = LineBegin(yielded[i].s)

\* C8 witness: a single-line statement whose line begins with whitespace has
\* been yielded without it, and an indented one that ended a block with it.
C8_Witness ==
    /\ \E i \in 1..Len(yielded) :
           /\ yielded[i].arm = "single"
           /\ yielded[i].s > LineBegin(yielded[i].s)
    /\ \E i \in 1..Len(yielded) :
           /\ yielded[i].arm = "found_single"
           /\ data[yielded[i].s + 1] = " "

\* ----------------------------------------------------------------------- C9

\* the input is a `!` header followed by posting lines only
BangBlock(lines) ==
    /\ lines # <<>>
    /\ lines[1] = L_bang
    /\ \A k \in 2..Len(lines) : lines[k] \in {L_posting, L_posting_other}

\* C9: a `!` header followed by N >= 0 posting lines is parsed without a
\* panic into one statement and one Transaction of flag Error with N postings.
C9_BangLikeStar ==
    BangBlock(input_lines) =>
        /\ pc # "panic"
        /\ pc = "done" =>
               /\ Len(yielded) = 1
               /\ Len(parsed_entries.transactions) = 1
               /\ parsed_entries.transactions[1].flag = FlagError
               /\ Len(parsed_entries.transactions[1].postings)
                      = Len(input_lines) - 1

\* ---------------------------------------------------------------------- C10

RECURSIVE QuotedStrings(_, _, _)
\* a quote-aware reading of header h from the 1-based index i: the contents
\* of the double-quoted strings separated by spaces, ok being FALSE when h
\* holds anything else
QuotedStrings(h, i, acc) ==
    LET j == FindIn(h, i, {" "}, FALSE)
        k == FindIn(h, j + 1, {"\""}, TRUE)
    IN  IF j = 0 THEN [ok |-> TRUE, strings |-> acc]
        ELSE IF h[j] # "\"" \/ k = 0 THEN [ok |-> FALSE, strings |-> acc]
        ELSE IF k < Len(h) /\ h[k + 1] # " " THEN [ok |-> FALSE, strings |-> acc]
        ELSE QuotedStrings(h, k + 1, Append(acc, SubSeq(h, j + 1, k - 1)))

\* what a quote-aware header parser answers on the quoted strings q
QuoteAwareAnswer(r, q) ==
    CASE Len(q) = 0 ->
            r.tag = "Ok" /\ r.val.payee = None /\ r.val.narration = None
      [] Len(q) = 1 ->
            r.tag = "Ok" /\ r.val.payee = None /\ r.val.narration = Some(q[1])
      [] Len(q) = 2 ->
            r.tag = "Ok" /\ r.val.payee = Some(q[1]) /\ r.val.narration = Some(q[2])
      [] OTHER -> r.tag = "Err"

\* C10: header parsing is quote-aware: no quoted string gives no payee and no
\* narration, one quoted string, spaces inside included, gives the narration,
\* two give payee and narration, more than two are an error.
C10_QuoteAwareHeader ==
    header_result # None /\ QuotedStrings(header, 1, <<>>).ok =>
        QuoteAwareAnswer(header_result[1], QuotedStrings(header, 1, <<>>).strings)

\* ---------------------------------------------------------------------- C11

\* h[i..j] is a token of the marker-free text h: a maximal run without spaces
IsTokenAt(h, i, j) ==
    /\ \A k \in i..j : h[k] # " "
    /\ i = 1 \/ h[i - 1] = " "
    /\ j = Len(h) \/ h[j + 1] = " "

\* the header holds a token that does not both begin and end with a quote
HasUnquotedToken(h) ==
    \E i \in 1..Len(h) : \E j \in i..Len(h) :
        /\ IsTokenAt(h, i, j)
        /\ h[i] # "\"" \/ h[j] # "\""

\* C11: a header holding a token that does not both begin and end with a
\* double quote (a bare token, or a token quoted on one side only) makes
\* header parsing fail with an error.
C11_EveryTokenQuoted ==
    header_result # None /\ HasUnquotedToken(header) =>
        header_result[1].tag = "Err"

\* ---------------------------------------------------------------------- C12

\* Posting::try_from has returned
PostingReturned == call.fn = "Posting::try_from" /\ call_result # None

\* C12: a posting whose cost clause is present but empty, `{}` or `{{}}`,
\* with or without a price clause before it, parses successfully with the
\* cost Some(CostType::Automatic).
C12_EmptyCostIsAutomatic ==
    PostingReturned =>
        \A q \in QuantityCatalog, p \in PriceClauseCatalog,
           c \in CostClauseCatalog :
            call.arg = PostingText(q, p, c) /\ c.form = "empty" =>
                /\ call_result[1].tag = "Ok"
                /\ call_result[1].val.cost = Some(Automatic)

\* ---------------------------------------------------------------------- C13

\* the absolute value of an integer
Abs(n) == IF n < 0 THEN -n ELSE n

\* | stored * |q| - x |, in units of 10^-(stored.scale + q.scale + x.scale)
ProductGap(stored, q, x) ==
    Abs(stored.m * Abs(q.m) * Pow10(x.scale)
        - x.m * Pow10(stored.scale + q.scale))

\* x / |q| has at most DivScale fractional digits
FiniteQuotient(q, x) ==
    \E k \in 0..DivScale :
        (Abs(x.m) * Pow10(q.scale) * Pow10(k)) % (Abs(q.m) * Pow10(x.scale)) = 0

\* the stored amount is the total x divided by |q|, exactly
TotalExactly(stored, q, x) ==
    /\ stored.currency = x.currency
    /\ stored.number.m * x.number.m >= 0
    /\ ProductGap(stored.number, q.number, x.number) = 0

\* the stored amount is the total x divided by |q|: exactly when the
\* quotient is finite, and within half a unit of the last digit kept otherwise
TotalRounded(stored, q, x) ==
    /\ stored.currency = x.currency
    /\ stored.number.m * x.number.m >= 0
    /\ FiniteQuotient(q.number, x.number) =>
           ProductGap(stored.number, q.number, x.number) = 0
    /\ 2 * ProductGap(stored.number, q.number, x.number) * Pow10(DivScale)
           <= Abs(q.number.m) * Pow10(stored.number.scale + x.number.scale)

\* the stored Option<Amount> is what the clause cl of a posting of amount q
\* declares, a total being judged by TotalRule
StoredAs(stored, cl, q, TotalRule(_, _, _)) ==
    CASE cl.form = "none" -> stored = None
      [] cl.form = "unit" -> stored # None /\ AmountEq(stored[1], cl.amount[1])
      [] cl.form = "total" ->
            stored # None /\ TotalRule(stored[1], q.amount, cl.amount[1])
      [] OTHER -> TRUE

\* the amount of a Posting's price
StoredPrice(posting) ==
    IF posting.price = None THEN None ELSE Some(posting.price[1].amount)

\* the amount of a Posting's cost
StoredCost(posting) ==
    IF posting.cost = None \/ posting.cost[1] = Automatic THEN None
    ELSE Some(posting.cost[1][2].amount)

\* every posting parsed stores its price and its cost per unit
StoredPerUnit(TotalRule(_, _, _)) ==
    PostingReturned /\ call_result[1].tag = "Ok" =>
        \A q \in QuantityCatalog, p \in PriceClauseCatalog,
           c \in CostClauseCatalog :
            call.arg = PostingText(q, p, c) =>
                /\ StoredAs(StoredPrice(call_result[1].val), p, q, TotalRule)
                /\ StoredAs(StoredCost(call_result[1].val), c, q, TotalRule)

\* C13 as stated: a unit form is stored unchanged; a total form is stored
\* with its currency and its sign kept, and the stored number times the
\* absolute value of the posting's quantity equals the declared total.
C13_ProductIsTotal == StoredPerUnit(TotalExactly)

\* C13 amended: a unit form is stored unchanged; a total form is stored with
\* its currency and its sign kept, whatever the sign of the posting's
\* quantity; the stored number times the absolute value of the quantity
\* equals the declared total when the quotient is a finite decimal, and the
\* stored number is the quotient rounded to the last digit kept otherwise.
C13_PerUnitStored == StoredPerUnit(TotalRounded)

\* C13 witness: `A -6U @@ 60 F` has been parsed and stores the price 10 F.
C13_Witness ==
    /\ call.arg = <<"A", " ", "-", "6", "U", " ", "@", "@", " ", "6", "0", " ", "F">>
    /\ call_result # None
    /\ call_result[1].tag = "Ok"
    /\ AmountEq(call_result[1].val.price[1].amount,
                Amount_new(Decimal_new(10, 0), <<"F">>))
    /\ call_result[1].val.cost = None

\* ---------------------------------------------------------------------- C14

\* the clause sequence is [price?][cost?]
FixedSequence(seq) ==
    \/ seq = <<>>
    \/ Len(seq) = 1 /\ seq[1] \in PriceClauses \cup CostClauses
    \/ Len(seq) = 2 /\ seq[1] \in PriceClauses /\ seq[2] \in CostClauses

\* the clause of the given kind in a [price?][cost?] sequence
ClauseOf(seq, kind) ==
    IF \E i \in 1..Len(seq) : seq[i] \in kind
    THEN seq[CHOOSE i \in 1..Len(seq) : seq[i] \in kind]
    ELSE NoClause

\* parsed, an Option<Parsed<Amount>>, is what the clause cl declares
ParsedAs(parsed, cl) ==
    IF cl.form = "none" THEN parsed = None
    ELSE /\ parsed # None
         /\ parsed[1].per_unit = (cl.form = "unit")
         /\ AmountEq(parsed[1].data, cl.amount[1])

\* the price of parse_price_and_cost's Ok value as an Option<Parsed<Amount>>
ParsedPrice(v) ==
    IF v.price = None THEN None
    ELSE Some(Parsed(v.price[1].data.amount, v.price[1].per_unit))

\* the cost of parse_price_and_cost's Ok value as an Option<Parsed<Amount>>
ParsedCost(v) ==
    IF v.cost = None THEN None
    ELSE Some(Parsed(v.cost[1].data[2].amount, v.cost[1].per_unit))

\* parse_price_and_cost has returned r on the clause sequence seq
PriceAndCostAnswer(r, seq) ==
    IF FixedSequence(seq)
    THEN /\ r.tag = "Ok"
         /\ ParsedAs(ParsedPrice(r.val), ClauseOf(seq, PriceClauses))
         /\ ParsedAs(ParsedCost(r.val), ClauseOf(seq, CostClauses))
    ELSE r.tag = "Err"

\* C14: parse_price_and_cost accepts only the sequence [price?][cost?]: a
\* blank remainder gives (None, None); a well-formed sequence gives exactly
\* the clauses it holds; an unterminated brace, mismatched braces, two price
\* clauses, two cost clauses, a cost before a price, a clause without a
\* number and unrecognized text give an error, never a partial result.
C14_FixedSequenceOnly ==
    call.fn = "parse_price_and_cost" /\ call_result # None =>
        \A seq \in ClauseSeqs, pad \in Paddings :
            call.arg = ClauseText(seq, pad) =>
                PriceAndCostAnswer(call_result[1], seq)

\* C14 witness: a unit price clause followed by a total cost clause has been
\* parsed to both.
C14_Witness ==
    /\ call.fn = "parse_price_and_cost"
    /\ call_result # None
    /\ call_result[1].tag = "Ok"
    /\ call_result[1].val.price # None
    /\ call_result[1].val.price[1].per_unit
    /\ call_result[1].val.cost # None
    /\ ~call_result[1].val.cost[1].per_unit

\* ---------------------------------------------------------------------- C15

\* the text that precedes the first comment marker of t
BeforeFirstMarker(t) ==
    LET i == FindIn(t, 1, CommentChars, TRUE)
    IN  IF i = 0 THEN t ELSE SubSeq(t, 1, i - 1)

RECURSIVE SplitRuns(_, _)
\* the maximal non-empty runs without a space of t, in order, cur being the
\* run under way
SplitRuns(t, cur) ==
    IF t = <<>> THEN (IF cur = <<>> THEN <<>> ELSE <<cur>>)
    ELSE IF Head(t) = " "
    THEN (IF cur = <<>> THEN <<>> ELSE <<cur>>) \o SplitRuns(Tail(t), <<>>)
    ELSE SplitRuns(Tail(t), Append(cur, Head(t)))

\* the amounts of the postings of a transaction
PostingAmounts(t) == [i \in 1..Len(t.postings) |-> t.postings[i].amount]

\* the transaction statement, whatever the comment after its first posting,
\* is parsed to its postings: 5 C, and -5 U when a second line follows
CommentedPostingParsed(r, tail) ==
    /\ r.tag = "Ok"
    /\ r.val.kind = "Transaction"
    /\ PostingAmounts(r.val.entry) =
           <<Amount_new(Decimal_new(5, 0), <<"C">>)>>
           \o (IF tail = <<>> THEN <<>>
               ELSE <<Amount_new(Decimal_new(-5, 0), <<"U">>)>>)

\* C15: the comment of a line starts at its first comment marker: the
\* TokenIterator yields exactly the maximal whitespace-free runs of the text
\* before the first `;` or `#`, and a posting line is parsed from the text
\* before its first marker, whatever follows the marker.
C15_CommentFromFirstMarker ==
    /\ call.fn = "TokenIterator" /\ call_result # None =>
           /\ call_result[1].tag = "Ok"
           /\ call_result[1].val = SplitRuns(BeforeFirstMarker(call.arg), <<>>)
    /\ call.fn = "parse_entry" /\ call_result # None =>
           \A s \in CommentSuffixes, t \in PostingTails :
               call.arg = CommentedTransaction(s, t) =>
                   CommentedPostingParsed(call_result[1], t)

\* ---------------------------------------------------------------------- C16

\* the currency is non-empty and holds alphabetic characters only
AlphabeticCurrency(a) ==
    /\ a.currency # <<>>
    /\ \A i \in 1..Len(a.currency) : a.currency[i] \in AlphabeticChars

\* the amounts a posting holds
AmountsOfPosting(p) ==
    {p.amount}
    \cup (IF p.price = None THEN {} ELSE {p.price[1].amount})
    \cup (IF p.cost = None \/ p.cost[1] = Automatic THEN {}
          ELSE {p.cost[1][2].amount})

\* the amounts an entry holds
AmountsOfEntry(e) ==
    CASE e.kind \in {"Balance", "PriceEntry"} -> {e.entry.amount}
      [] e.kind = "Transaction" ->
            UNION {AmountsOfPosting(e.entry.postings[i]) :
                       i \in 1..Len(e.entry.postings)}
      [] OTHER -> {}

\* C16: every Amount of an entry that parse_entry returns, and the
\* aggregator then stores, has a non-empty currency of alphabetic characters
\* only.
C16_CurrencyIsAlphabetic ==
    call.fn = "parse_entry" /\ call_result # None /\ call_result[1].tag = "Ok" =>
        \A a \in AmountsOfEntry(call_result[1].val) : AlphabeticCurrency(a)

\* ---------------------------------------------------------------------- C17

\* the name and amount fragments are `<name> <amount>` with a well-formed
\* amount and nothing after it
WellFormedAmount(num, cur, extra) ==
    num.value # None /\ cur = <<"C">> /\ extra = <<>>

\* the name of a Balance or of a PriceEntry
NameOf(e) == IF e.kind = "Balance" THEN e.entry.account ELSE e.entry.currency

\* what parse_entry has to answer on `balance` or `price` followed by the
\* fragments
NameAndAmountAnswer(r, kw, num, cur, extra) ==
    IF WellFormedAmount(num, cur, extra)
    THEN /\ r.tag = "Ok"
         /\ r.val.kind = (IF kw = kw_balance THEN "Balance" ELSE "PriceEntry")
         /\ NameOf(r.val) = <<"A">>
         /\ AmountEq(r.val.entry.amount, Amount_new(num.value[1], cur))
    ELSE r.tag = "Err"

\* C17: `balance <account> <amount>` and `price <currency> <amount>` succeed
\* with that name and amount for every well-formed amount, the number and the
\* currency being separated by a space or adjacent, and fail when the number
\* or the currency is missing, the number is malformed or a token follows
\* the amount.
C17_NameThenAmount ==
    call.fn = "parse_entry" /\ call_result # None =>
        \A kw \in {kw_balance, kw_price}, num \in NumberCatalog,
           sep \in Separators, cur \in {<<"C">>, <<>>}, extra \in Extras :
            (/\ call.arg = Statement(DateText, kw,
                                     NameAndAmount(num, sep, cur, extra))
             /\ (cur = <<>> => extra = <<>>))
            => NameAndAmountAnswer(call_result[1], kw, num, cur, extra)

\* ---------------------------------------------------------------------- C18

\* what parse_entry has to answer on `open` followed by the tokens
OpenAnswer(r, tokens) ==
    IF tokens = <<>> THEN r.tag = "Err"
    ELSE /\ r.tag = "Ok"
         /\ r.val.kind = "Open"
         /\ r.val.entry.account = tokens[1]
         /\ r.val.entry.allowed_currencies =
                (IF Len(tokens) = 1 THEN None ELSE Some(Tail(tokens)))

\* C18: for `open` the account is the first token of the remainder and the
\* tokens after it, in order and whatever the spaces between them, are the
\* allowed currencies; allowed_currencies is None exactly when no token
\* follows the account; a remainder without a token is an error.
C18_OpenAccountAndCurrencies ==
    call.fn = "parse_entry" /\ call_result # None =>
        \A r \in OpenRemainders :
            call.arg = Statement(DateText, kw_open, <<" ">> \o r) =>
                OpenAnswer(call_result[1], SplitRuns(r, <<>>))

\* C18 witness: `open A  C`, two spaces before the currency, has been parsed
\* to the account A and the allowed currency C.
C18_Witness ==
    /\ call.fn = "parse_entry"
    /\ call.arg = Statement(DateText, kw_open, <<" ", "A", " ", " ", "C">>)
    /\ call_result # None
    /\ call_result[1].tag = "Ok"
    /\ call_result[1].val.entry.account = <<"A">>
    /\ call_result[1].val.entry.allowed_currencies = Some(<<<<"C">>>>)

\* ---------------------------------------------------------------------- C19

\* the whitespace-separated words of a statement, newlines being whitespace
Words(statement) ==
    SplitRuns([i \in 1..Len(statement) |->
                   IF statement[i] = "\n" THEN " " ELSE statement[i]], <<>>)

\* the keywords and the flags the dispatcher knows
KnownCommands ==
    {kw_open, kw_close, kw_balance, kw_commodity, kw_price, <<"*">>, <<"!">>}

\* the statement has no leading date, no second token, or a second token
\* that is neither a flag nor a keyword
Undispatchable(w) ==
    \/ w = <<>>
    \/ w[1] # DateText
    \/ Len(w) < 2
    \/ w[2] \notin KnownCommands

\* the statement has a date and an unknown second token
UnknownCommand(w) ==
    Len(w) >= 2 /\ w[1] = DateText /\ w[2] \notin KnownCommands

\* the dispatcher's error on the statement whose words are w
DispatchError(r, statement, w) ==
    /\ r.tag = "Err"
    /\ r.err.failed_statement = statement
    /\ UnknownCommand(w) =>
           r.err.context = ErrMsg("Unknown command in entry", w[2])

\* C19: for a statement without a parseable leading date, without a second
\* token, or whose second token is neither a flag nor a keyword, parse_entry
\* returns an error, never a value and never a panic; the error holds the
\* whole statement, and names the keyword when the keyword is unknown.
C19_DispatcherErrors ==
    call.fn = "parse_entry" /\ call_result # None
    /\ call.arg \in DispatchTexts /\ Undispatchable(Words(call.arg))
    => DispatchError(call_result[1], call.arg, Words(call.arg))

\* C19 witness: `2024-10-04 note A` has been refused with an error naming
\* `note`.
C19_Witness ==
    /\ call.fn = "parse_entry"
    /\ call.arg = Statement(DateText, <<"n", "o", "t", "e">>, <<" ", "A">>)
    /\ call_result # None
    /\ call_result[1].tag = "Err"
    /\ call_result[1].err.context.arg = <<"n", "o", "t", "e">>

\* ---------------------------------------------------------------------- C20

\* the statement begins with a date and a transaction flag
IsTransactionText(text) ==
    /\ Len(Words(text)) >= 2
    /\ Words(text)[1] = DateText
    /\ Words(text)[2] \in {<<"*">>, <<"!">>}

\* the lines that fail to parse as a posting: no number before the currency
\* (`  A x`, and `* h`, which the segmenter skips but leaves in the block)
FailingPostings == {L_malformed, L_heading}

\* the posting lines of the statement that fail to parse
FailingAt(text) == {k \in 2..Len(Lines(text)) : Lines(text)[k] \in FailingPostings}

\* one of the posting lines of the transaction statement fails to parse
HasFailingPosting(text) == IsTransactionText(text) /\ FailingAt(text) # {}

\* the first posting line of the statement that fails to parse
FirstFailing(text) ==
    Lines(text)[CHOOSE k \in FailingAt(text) : \A j \in FailingAt(text) : k <= j]

\* the error of a transaction whose posting line `line` fails to parse
FailingPostingError(r, text, line) ==
    /\ r.tag = "Err"
    /\ r.err.failed_statement = text
    /\ r.err.context.msg = "unable to parse transaction"
    /\ r.err.context.arg = ErrMsg("Unable to parse posting", line)

\* the yielded statements that are transactions without a failing posting
SoundTransactions ==
    {i \in 1..Len(yielded) :
        /\ IsTransactionText(SliceText(yielded[i]))
        /\ ~HasFailingPosting(SliceText(yielded[i]))}

\* C20: transaction assembly is all-or-nothing: a transaction statement with
\* a posting line that fails to parse gives an error naming that line and
\* holding the whole statement, the statement's raw text is in
\* unhandled_entries, and `transactions` holds no transaction for it, not
\* even one with the postings parsed before the failing line.
C20_AllOrNothing ==
    pc \in {"running", "done"} =>
        /\ \A i \in 1..Len(yielded) :
               HasFailingPosting(SliceText(yielded[i])) =>
                   /\ FailingPostingError(parse_entry(SliceText(yielded[i])),
                                          SliceText(yielded[i]),
                                          FirstFailing(SliceText(yielded[i])))
                   /\ \E k \in 1..Len(parsed_entries.unhandled_entries) :
                          parsed_entries.unhandled_entries[k]
                              = SliceText(yielded[i])
        /\ Len(parsed_entries.transactions) = Cardinality(SoundTransactions)

\* C20 witness: a finished parse of one transaction whose second posting
\* line fails: the statement is the only unhandled entry and `transactions`
\* is empty.
C20_Witness ==
    /\ pc = "done"
    /\ input_lines = <<L_star, L_posting, L_malformed>>
    /\ Len(yielded) = 1
    /\ parsed_entries.unhandled_entries = <<SliceText(yielded[1])>>
    /\ parsed_entries.transactions = <<>>

\* ---------------------------------------------------------------- C21

\* consume_amount has returned
ConsumeReturned == call.fn = "consume_amount" /\ call_result # None

\* what consume_amount is to return on `<number><sep><currency><rest>`: the
\* amount of the number and the currency with the rest untouched, an error
\* when the number is missing or malformed
ConsumeAnswer(result, num, cur, rest) ==
    IF num.value = None THEN result.tag = "Err"
    ELSE /\ result.tag = "Ok"
         /\ result.val.amount = Amount_new(num.value[1], cur)
         /\ result.val.remain = rest

\* C21: consume_amount takes the maximal alphabetic run from the first
\* alphabetic character as the currency, parses the text up to the end of
\* that run as the amount and returns the rest of the input untouched, with
\* or without a space between number and currency; a text without an
\* alphabetic character, without a number before the currency or with a
\* malformed number is an error.
C21_ConsumeAmount ==
    ConsumeReturned =>
        /\ \A num \in NumberCatalog, sep \in Separators,
              cur \in ConsumeCurrencies, rest \in ConsumeRests :
               call.arg = AmountAndRest(num, sep, cur, rest) =>
                   ConsumeAnswer(call_result[1], num, cur, rest)
        /\ \A num \in NumberCatalog, sep \in Separators, rest \in BareRests :
               call.arg = AmountAndRest(num, sep, <<>>, rest) =>
                   call_result[1].tag = "Err"

\* `5BTC 5 D` has been consumed: 5 BTC and the rest ` 5 D`
C21_Witness ==
    /\ ConsumeReturned
    /\ call.arg = <<"5", "B", "T", "C", " ", "5", " ", "D">>
    /\ call_result[1].tag = "Ok"
    /\ call_result[1].val.amount = Amount_new(Decimal_new(5, 0), <<"B", "T", "C">>)
    /\ call_result[1].val.remain = <<" ", "5", " ", "D">>

\* ---------------------------------------------------------------- C22

\* the call of next that follows the calls made so far
NextCallOfNext == StatementIterator_next(data, position, state)

\* next has returned None and returns None again, leaving the iterator as
\* it is
StaysExhausted ==
    /\ NextCallOfNext.tag = "None"
    /\ NextCallOfNext.position = position
    /\ NextCallOfNext.state = state

\* what is left to do: the unread part of the buffer, and the statement
\* whose start the iterator's state holds
Remaining(pos, st) ==
    2 * (Len(data) - pos) + (IF st.tag = "SearchingNextStart" THEN 0 ELSE 1)

\* the next call returns, inside the buffer, and a returned statement leaves
\* less to do than before
NextCallReturns ==
    /\ NextCallOfNext.tag \in {"Some", "None", "Panic"}
    /\ NextCallOfNext.position \in position..Len(data)
    /\ NextCallOfNext.tag = "Some" =>
           Remaining(NextCallOfNext.position, NextCallOfNext.state)
               < Remaining(position, state)

\* C22: the statement sequence is finite: every call of next returns after
\* reading part of what is left of the buffer, no more statements are
\* yielded than the input has lines, so that None comes after at most
\* (number of input lines + 1) calls, and after None every later call
\* returns None.
C22_FiniteSequence ==
    /\ pc = "running" =>
           /\ NextCallReturns
           /\ Len(yielded) = Len(input_lines) => NextCallOfNext.tag = "None"
    /\ pc \in {"running", "done", "panic"} => Len(yielded) <= Len(input_lines)
    /\ pc = "done" => StaysExhausted

\* three statements out of three lines, then None on the fourth call and
\* on the one after it
C22_Witness ==
    /\ pc = "done"
    /\ Len(input_lines) = MaxLines
    /\ Len(yielded) = MaxLines
    /\ StaysExhausted

\* ---------------------------------------------------------------- C23

\* the posting's quantity is zero and a clause states a total
ZeroQuantityWithTotal(q, p, c) ==
    /\ q.amount.number.m = 0
    /\ p.form = "total" \/ c.form = "total"

\* C23: a posting whose quantity is zero and that carries a total-form
\* price or cost parses to an error value: the division by the posting's
\* magnitude neither crashes the parse nor stores a price or cost.
C23_ZeroQuantityIsAnError ==
    PostingReturned =>
        \A q \in QuantityCatalog, p \in PriceClauseCatalog,
           c \in CostClauseCatalog \ {cl \in CostClauseCatalog : cl.form = "empty"} :
            (call.arg = PostingText(q, p, c) /\ ZeroQuantityWithTotal(q, p, c)) =>
                call_result[1].tag = "Err"

\* ---------------------------------------------------------------- C24

\* the text holds a newline
HasNewline(text) == FindIn(text, 1, {"\n"}, TRUE) # 0

\* the statement was parsed as a transaction or refused with an error value
TransactionOrError(r) ==
    \/ r.tag = "Err"
    \/ r.tag = "Ok" /\ r.val.kind = "Transaction"

\* the statement reaches no TokenIterator::new on text holding a newline
TokenizerSafe(text, r) ==
    /\ r # TokenIterator_panic
    /\ HasNewline(text) => TransactionOrError(r)

\* C24: the tokenizer's rejection of multi-line text is unreachable from the
\* pipeline: no statement yielded by the segmenter makes parse_entry or the
\* transaction assembler build a TokenIterator over text holding a newline;
\* a statement of several lines is parsed as a transaction or refused, and
\* no parse ends in the tokenizer's panic.
C24_TokenizerUnreachable ==
    pc \in {"running", "done", "panic"} =>
        /\ \A i \in 1..Len(yielded) :
               TokenizerSafe(SliceText(yielded[i]),
                             parse_entry(SliceText(yielded[i])))
        /\ pc = "panic" => panic_msg # TokenIterator_panic.err

\* a block of a quoted header and a posting line was parsed as a transaction
C24_Witness ==
    /\ pc = "done"
    /\ input_lines = <<L_star_indented, L_posting, L_open>>
    /\ Len(yielded) = 2
    /\ HasNewline(SliceText(yielded[1]))
    /\ Len(parsed_entries.transactions) = 1
    /\ Len(parsed_entries.transactions[1].postings) = 1
    /\ Len(parsed_entries.open) = 1

\* ---------------------------------------------------------------- C25

\* the entries of the six kinds held in the aggregate
StoredEntries(pe) ==
    Len(pe.open) + Len(pe.balance) + Len(pe.close) + Len(pe.commodity)
    + Len(pe.price) + Len(pe.transactions)

\* C25: after any sequence of push / push_result calls, len() is the number
\* of successfully parsed entries of all six kinds held in the aggregate,
\* and is_empty() is true exactly when no entry of any kind is stored.
C25_LenCountsEveryKind ==
    pc \in {"running", "done", "panic"} =>
        /\ ParsedEntries_len(parsed_entries) = StoredEntries(parsed_entries)
        /\ ParsedEntries_is_empty(parsed_entries)
               <=> StoredEntries(parsed_entries) = 0

\* ---------------------------------------------------------------- C26

\* print_posting has returned and its line was read back
PostingPrinted == call.fn = "print_posting" /\ call_result # None

\* the posting read back is the posting printed
ReadBack(r, p) ==
    /\ r.tag = "Ok"
    /\ r.val.account = p.account
    /\ AmountEq(r.val.amount, p.amount)
    /\ (p.price = None) = (r.val.price = None)
    /\ p.price # None => AmountEq(r.val.price[1].amount, p.price[1].amount)
    /\ (p.cost = None) = (r.val.cost = None)
    /\ p.cost # None =>
           /\ r.val.cost[1][1] = "Known"
           /\ AmountEq(r.val.cost[1][2].amount, p.cost[1][2].amount)

\* C26: printing and parsing a posting round-trip: for every posting with
\* price None or Some and cost None or Known, the text of print_posting
\* parses to a posting with the same account, amount, price and cost.
C26_PrintParseRoundTrip ==
    PostingPrinted => ReadBack(call_result[1].posting, PostingNamed(call.arg))

\* ---------------------------------------------------------------- C27

\* the slice is a contiguous range of the input buffer
InsideBuffer(y) == 0 <= y.s /\ y.s <= y.e /\ y.e <= Len(data)

\* C27: the slices yielded by the segmenter are forward-only and disjoint:
\* each is a contiguous range of the input buffer and starts at or after the
\* end of the slice yielded before it.
C27_ForwardOnlyDisjoint ==
    pc \in {"running", "done", "panic"} =>
        /\ \A i \in 1..Len(yielded) : InsideBuffer(yielded[i])
        /\ \A i \in 1..(Len(yielded) - 1) : yielded[i].e <= yielded[i + 1].s

\* a block of two lines, then the single line that ended it, one character
\* (the newline) after the block's end
C27_Witness ==
    /\ pc = "done"
    /\ input_lines = <<L_star, L_posting, L_open>>
    /\ Len(yielded) = 2
    /\ yielded[1].s = 0
    /\ yielded[1].e = Len(L_star) + 1 + Len(L_posting)
    /\ yielded[2].s = yielded[1].e + 1
    /\ yielded[2].e = Len(data)

\* ---------------------------------------------------------------- C28

\* the line starts a statement: it is not skipped and its trimmed text is
\* date-led
StartsStatement(line) == ~skip_line(Trim(line)) /\ DatePrefix(Trim(line))

\* the lines of the input that start a statement
StatementStarts(lines) == {i \in 1..Len(lines) : StartsStatement(lines[i])}

\* the input without its skipped lines
RECURSIVE WithoutSkipped(_)
WithoutSkipped(lines) ==
    IF lines = <<>> THEN <<>>
    ELSE IF skip_line(Trim(lines[1])) THEN WithoutSkipped(Tail(lines))
    ELSE <<lines[1]>> \o WithoutSkipped(Tail(lines))

\* C28: on an input without a malformed top-level line the segmenter yields
\* as many statements as the input has lines that are not skipped and whose
\* trimmed text is date-led; blank lines, comment lines and `*`-led lines
\* neither add nor remove a statement, wherever they stand.
C28_OneStatementPerStart ==
    /\ pc \in {"running", "panic"} =>
           Len(yielded) <= Cardinality(StatementStarts(input_lines))
    /\ pc = "done" =>
           /\ Len(yielded) = Cardinality(StatementStarts(input_lines))
           /\ Len(yielded) = Cardinality(StatementStarts(WithoutSkipped(input_lines)))

\* a `*`-led line between a block's posting and the directive that ends the
\* block: two statements
C28_Witness ==
    /\ pc = "done"
    /\ input_lines = <<L_star, L_posting, L_heading, L_open>>
    /\ Len(yielded) = 2
    /\ yielded[2].arm = "found_single"

\* ---------------------------------------------------------------- C29

\* the slices yielded for blocks
BlockSlices == {i \in 1..Len(yielded) : yielded[i].arm \in {"multiline", "multiline_eof"}}

\* the end offset of the last line of the slice's range that is not skipped,
\* the slice's start when it has none
RECURSIVE LastContentEnd(_, _, _)
LastContentEnd(start, offset, lines) ==
    IF lines = <<>> THEN start
    ELSE LET rest == LastContentEnd(start, offset + Len(lines[1]) + 1, Tail(lines))
         IN  IF rest # start THEN rest
             ELSE IF skip_line(Trim(lines[1])) THEN start
             ELSE offset + Len(lines[1])

\* the slice ends where the last non-skipped line of its text ends
EndsAtLastContent(y) ==
    y.e = LastContentEnd(y.s, y.s, Lines(SliceText(y)))

\* the text ends with a newline or with a blank or comment line
TrailingNoise(text) ==
    \/ text # <<>> /\ text[Len(text)] = "\n"
    \/ Lines(text) # <<>> /\ skip_line(Trim(Lines(text)[Len(Lines(text))]))

\* C29: the slice yielded for a block does not depend on what ends the
\* block: ended by the end of input it ends at the end of the block's last
\* non-skipped line, as it does when a statement start ends it; no yielded
\* statement ends with a newline or with trailing blank or comment lines.
C29_BlockEndsAtItsLastLine ==
    pc \in {"running", "done", "panic"} =>
        \A i \in 1..Len(yielded) :
            /\ i \in BlockSlices /\ yielded[i].s < yielded[i].e =>
                   EndsAtLastContent(yielded[i])
            /\ ~TrailingNoise(SliceText(yielded[i]))

\* ---------------------------------------------------------------- C30

\* the orders the postings can be put in
PostingOrders(n) ==
    {f \in [1..n -> 1..n] : \A i, j \in 1..n : f[i] = f[j] => i = j}

\* the amounts in the order f
Permuted(amts, f) == [i \in 1..Len(amts) |-> amts[f[i]]]

\* check on the transaction whose postings are put in the order f
CheckPermuted(f) == Transaction_check(TestTransaction(Permuted(amounts, f)))

\* C30: the outcome of Transaction::check does not depend on the order of
\* the postings: for every permutation of the posting list, check succeeds
\* on the permuted transaction exactly when it succeeds on the original.
C30_CheckIgnoresOrder ==
    check_result # None =>
        \A f \in PostingOrders(Len(amounts)) :
            (CheckPermuted(f).tag = "Ok") = (check_result[1].tag = "Ok")

\* a balanced transaction of three postings whose order was reversed
C30_Witness ==
    /\ check_result # None
    /\ check_result[1].tag = "Ok"
    /\ amounts = <<Amount_new(Decimal_new(100, 0), USD),
                   Amount_new(Decimal_new(-50, 0), USD),
                   Amount_new(Decimal_new(-50, 0), USD)>>
    /\ CheckPermuted([i \in 1..3 |-> 4 - i]).tag = "Ok"

====
